---- MODULE Spec2Model ----
(***************************************************************************)
(* A model of the minitrace span-recording core.                           *)
(*                                                                         *)
(* Part I   thread-local recording, AsyncHandle and SyncCollector/Finisher *)
(*          (src/trace.rs, src/thread.rs, src/collector/sync_impl.rs);     *)
(*          specification Spec.                                            *)
(* Part II  Scope, the local scope and span line, and Collector            *)
(*          (src/trace/scope.rs, src/local/local_collector.rs,             *)
(*          src/span/mod.rs, src/trace/collector.rs);                      *)
(*          specification SpecCollect.  SpecAttach runs the operations of  *)
(*          Parts I and II that attach a trace to a thread.                *)
(* Part III TraceHandle and its guards (src/trace_async.rs);               *)
(*          specification SpecAsync.                                       *)
(***************************************************************************)
EXTENDS Integers, Sequences, FiniteSets, TLC

(***************************************************************************)
(* Bounds of the model.                                                    *)
(***************************************************************************)
\* plain local spans (new_span, and start_trace of a handle on a busy thread)
MaxLocal == 1
\* async attaches (AsyncHandle::new_scope) over all handles
MaxAttach == 2

\* scopes created over the life of a trace, the root included
MaxScopes == 2
\* local spans opened on the span lines, spawn spans included
MaxSpans == 2
\* successful attaches of a scope to a thread
MaxAttaches == 2
\* handles captured under the root, each moved to a thread of its own
FanOut == 2
\* plain spans opened under one root, side by side or one inside another
MaxNest == 3
\* properties a thread holds before its spans are submitted
MaxProps == 2
\* plain spans opened in one trace, by new_span and by a handle on a busy thread
MaxSiblings == 2
\* scopes made over several traces: roots, empty scopes and merged scopes
MaxMerged == 4

Threads == {"t1", "t2"}
\* the AsyncHandle values the program creates
Handles == {1}
\* the events callers pass
Events == {1}
\* the event a caller passes when it starts a handle
HandleEvent == 2
\* the byte strings callers pass to new_property: b"", one byte, two bytes
Payloads == {<<>>, <<7>>, <<8, 9>>}
\* the traces of the program; each is rooted by one start_trace
TraceIds == {1}
\* the threads that attach scopes and record local spans
Workers == {"t1"}
\* the slots of the Scope values the program creates; slot 1 is the root
Scopes == 1..MaxScopes

\* Option<T>
None == <<>>
Some(x) == <<x>>
\* an unwrap_or_default that forgets the value it was given
unwrap_or_default_dropped(o) == 0
unwrap_or_default(o) == IF o = None THEN 0 ELSE o[1]

\* the duration_threshold arguments of collect, in nanoseconds
Thresholds == {None, Some(10)}
\* the parent_id_of_root arguments of collect
ParentIdsOfRoot == {None, Some(99)}

(***************************************************************************)
(* Program constants.                                                      *)
(***************************************************************************)
\* std::u16::MAX, the last suffix of a prefix
U16_MAX == 65535
\* 1 << 16, the weight of id_prefix in a span id
ID_PREFIX_UNIT == 65536
\* the first value of GLOBAL_ID_COUNTER
GLOBAL_ID_FIRST == 1
\* cycles are u64; the checker's integers are narrower, so the wrap-around
\* point of wrapping_sub is placed at 2^30
CycleWrap == 2 ^ 30

VARIABLES
    \* shared by all parts
    clock,              \* the value the next read of the cycle counter returns
    ret,                \* history: the call made by the last step and its result
    guards,             \* thread -> the guards alive on it, oldest first
    \* Part I
    TRACE_LOCAL,        \* thread -> TraceLocal
    GLOBAL_ID_COUNTER,  \* AtomicU16
    handle,             \* handle -> AsyncHandle
    is_closed,          \* CollectorInner.is_closed
    tx,                 \* the channel between SyncCollector and Finisher
    finisher,           \* Finisher::finish: its position and what it merged
    allocated,          \* history: spans opened so far, by kind
    late_ids,           \* history: ids of spans sent while is_closed was set
    history,            \* history: handle -> where it was created, its attaches
    \* Part II
    scope,              \* slot -> Scope
    LOCAL_SCOPE,        \* thread -> the LocalScope slot
    SPAN_LINE,          \* thread -> the span line and its local collector
    next_id,            \* DefaultIdGenerator
    closed,             \* the closed flag shared by Acquirer and Collector
    receiver,           \* the channel from the Acquirer clones to the Collector
    collector,          \* Collector::collect: its position, arguments and result
    opened,             \* history: local spans opened, scopes attached so far
    \* Part III
    trace_local,        \* thread -> TraceLocal of crate::trace_local
    trace_handle,       \* handle -> TraceHandle
    queue,              \* collector.queue
    collector_closed,   \* collector.closed
    emitted,            \* history: handle -> the leading spans it emitted
    traced,             \* history: the root guard, plain spans, what was collected
    \* Part IV
    merge_scope,        \* slot -> Scope, over several traces
    acquirer,           \* trace -> its closed flag, its channel, the submit calls
    merge_next_id,      \* DefaultIdGenerator
    \* Part V
    future              \* the future wrapped with a handle: where its poll stands

vars_I == <<TRACE_LOCAL, GLOBAL_ID_COUNTER, handle, is_closed, tx, finisher,
            allocated, late_ids, history>>
vars_II == <<scope, LOCAL_SCOPE, SPAN_LINE, next_id, closed, receiver, collector,
             opened>>
vars_III == <<trace_local, trace_handle, queue, collector_closed, emitted, traced>>

vars_IV == <<merge_scope, acquirer, merge_next_id>>

vars_V == <<future>>

vars == <<clock, ret, guards, vars_I, vars_II, vars_III, vars_IV, vars_V>>

(***************************************************************************)
(* Data                                                                    *)
(***************************************************************************)
EmptyProperties == [span_ids |-> <<>>, property_lens |-> <<>>, payload |-> <<>>]

NewTraceLocal(prefix) ==
    [id_prefix |-> prefix, id_suffix |-> 0,
     enter_stack |-> <<>>, spans |-> <<>>, properties |-> EmptyProperties,
     trace_id |-> 0, collector |-> FALSE]

NoHandle ==
    [st |-> "absent", inner |-> FALSE, trace_id |-> 0, collector |-> FALSE,
     next_pending_parent_id |-> 0, begin_cycles |-> 0]

\* the last step was no call that returns an Option
NoRet == [op |-> "", t |-> "", some |-> FALSE]
Returned(op, t, some) == [op |-> op, t |-> t, some |-> some]

Last(s) == s[Len(s)]
Front(s) == SubSeq(s, 1, Len(s) - 1)
SeqToSet(s) == {s[i] : i \in DOMAIN s}

wrapping_sub(a, b) == (a - b) % CycleWrap

\* GLOBAL_ID_COUNTER.fetch_add(1): the value returned and the value left
next_global_id_prefix(counter) ==
    [prefix |-> counter, counter |-> (counter + 1) % (U16_MAX + 1)]

\* TraceLocal::new_span_id on local l with the global counter at g
new_span_id(l, g) ==
    LET id == l.id_prefix * ID_PREFIX_UNIT + l.id_suffix
        n  == next_global_id_prefix(g)
    IN  IF l.id_suffix = U16_MAX
        THEN [id |-> id, counter |-> n.counter,
              tl |-> [l EXCEPT !.id_suffix = 0, !.id_prefix = n.prefix]]
        ELSE [id |-> id, counter |-> g,
              tl |-> [l EXCEPT !.id_suffix = @ + 1]]

\* a SpanGuardInner::enter that puts the new span ahead of the spans recorded
SpanGuardInner_enter_ahead(span, l) ==
    [l EXCEPT !.enter_stack = Append(@, span.id), !.spans = <<span>> \o @]

\* SpanGuardInner::enter: the local after the push; span_index is the place
\* of the span in spans
SpanGuardInner_enter(span, l) ==
    [l EXCEPT !.enter_stack = Append(@, span.id), !.spans = Append(@, span)]

\* a SpanGuardInner::exit that leaves the stack as it is
SpanGuardInner_exit_no_pop(span_index, l, now_cycle) ==
    [l EXCEPT
       !.spans[span_index].elapsed_cycles =
           wrapping_sub(now_cycle, l.spans[span_index].begin_cycles)]

\* a SpanGuardInner::exit that measures the duration from the begin of the
\* first span recorded
SpanGuardInner_exit_since_first(span_index, l, now_cycle) ==
    [l EXCEPT
       !.enter_stack = IF @ = <<>> THEN @ ELSE Front(@),
       !.spans[span_index].elapsed_cycles =
           wrapping_sub(now_cycle, l.spans[1].begin_cycles)]

\* a SpanGuardInner::exit that records the cycle of the exit as the duration
SpanGuardInner_exit_at_cycle(span_index, l, now_cycle) ==
    [l EXCEPT
       !.enter_stack = IF @ = <<>> THEN @ ELSE Front(@),
       !.spans[span_index].elapsed_cycles = now_cycle]

\* SpanGuardInner::exit at cycle now_cycle
SpanGuardInner_exit(span_index, l, now_cycle) ==
    [l EXCEPT
       !.enter_stack = IF @ = <<>> THEN @ ELSE Front(@),
       !.spans[span_index].elapsed_cycles =
           wrapping_sub(now_cycle, l.spans[span_index].begin_cycles)]

\* a take_spans_and_properties that leaves the spans where they were
take_spans_and_properties_keeping(l) == l

\* a take_spans_and_properties that takes the spans and leaves the properties
take_spans_and_properties_spans_only(l) == [l EXCEPT !.spans = <<>>]

\* TraceLocal::take_spans_and_properties: the local left behind
take_spans_and_properties(l) ==
    [l EXCEPT !.spans = <<>>, !.properties = EmptyProperties]

\* whether the receiving end of the channel still exists
ReceiverAlive == finisher.pc # "done"

\* a collect_span_set that drops what it is given
collect_span_set_dropped(span_set) ==
    /\ tx' = tx
    /\ late_ids' = late_ids

\* SyncCollector::collect_span_set: try_send, its error ignored
collect_span_set(span_set) ==
    /\ tx' = IF ReceiverAlive THEN Append(tx, span_set) ELSE tx
    /\ late_ids' = IF ReceiverAlive /\ is_closed
                   THEN late_ids \cup {span_set.spans[i].id : i \in DOMAIN span_set.spans}
                   ELSE late_ids

Borrowed(h) == \E t \in DOMAIN guards : \E i \in DOMAIN guards[t] : guards[t][i].h = h

(***************************************************************************)
(* Data of Part II                                                         *)
(***************************************************************************)
\* the rate of the cycle counter: 500 MHz, a cycle every NsPerCycle ns
CyclesPerSecond == 500000000
NsPerSecond == 1000000000
NsPerCycle == NsPerSecond \div CyclesPerSecond
\* the wall clock, in ns, when the cycle counter read 0
UnixEpochNs == 1000

\* RawSpan::begin_with; end_cycle 0 is the default Cycle, "unfinished"
begin_with(id, parent_id, begin_cycles, event) ==
    [id |-> id, parent_id |-> parent_id, begin_cycle |-> begin_cycles,
     event |-> event, properties |-> <<>>, end_cycle |-> 0,
     descendant_count |-> 0, is_spawn_span |-> FALSE]

\* RawSpan::end_with
end_with(span, end_cycle) == [span EXCEPT !.end_cycle = end_cycle]

\* RawSpan::is_root: the span has no parent
is_root(span) == span.parent_id = 0

\* Cycle::is_zero
is_zero(cycle) == cycle = 0

\* DefaultClock::anchor at cycle now: the cycle and the wall clock then
anchor_at(now) == [cycle |-> now, unix_time_ns |-> UnixEpochNs + now * NsPerCycle]

\* DefaultClock::cycle_to_unix_time_ns
cycle_to_unix_time_ns(cycle, anchor) ==
    anchor.unix_time_ns + (cycle - anchor.cycle) * NsPerCycle

\* RawSpan::build_span
build_span(span, anchor) ==
    LET begin_unix_time_ns == cycle_to_unix_time_ns(span.begin_cycle, anchor)
        end_unix_time_ns   == cycle_to_unix_time_ns(span.end_cycle, anchor)
    IN  [id |-> span.id, parent_id |-> span.parent_id,
         begin_unix_time_ns |-> begin_unix_time_ns,
         duration_ns |-> end_unix_time_ns - begin_unix_time_ns,
         event |-> span.event, properties |-> span.properties]

ScopeSpan(span) == [kind |-> "ScopeSpan", span |-> span]
LocalSpans(spans, parent_span_id) ==
    [kind |-> "LocalSpans", spans |-> spans, parent_span_id |-> parent_span_id]

\* a Scope slot before Scope::new fills it
NoScope == [st |-> "absent", inner |-> FALSE, scope_id |-> 0, to_report |-> <<>>]
\* the LocalScope slot of a thread with no scope attached
NoLocalScope == [occupied |-> FALSE, scope_id |-> 0, acquirers |-> 0,
                 local_collector |-> FALSE]
\* a span line with no local collector registered
NoSpanLine == [registered |-> FALSE, spans |-> <<>>, open |-> <<>>]
\* the Collector before collect is called
NoCollector == [pc |-> "idle", duration_threshold |-> None,
                parent_id_of_root |-> None, span_collections |-> <<>>,
                quiescent |-> FALSE, spans |-> <<>>]

(***************************************************************************)
(* Init                                                                    *)
(***************************************************************************)
\* Every thread has touched TRACE_LOCAL once, in the order t1, t2, so the
\* prefixes 1 and 2 are drawn and the counter stands at 3.
ThreadPrefix(t) == IF t = "t1" THEN GLOBAL_ID_FIRST ELSE GLOBAL_ID_FIRST + 1

Init_I ==
    /\ TRACE_LOCAL = [t \in Threads |-> NewTraceLocal(ThreadPrefix(t))]
    /\ GLOBAL_ID_COUNTER = GLOBAL_ID_FIRST + Cardinality(Threads)
    /\ handle = [h \in Handles |-> NoHandle]
    /\ is_closed = FALSE
    /\ tx = <<>>
    /\ finisher = [pc |-> "idle", trace_id |-> 0, spans |-> <<>>,
                   properties |-> EmptyProperties]
    /\ allocated = [root |-> 0, local |-> 0, attach |-> 0]
    /\ late_ids = {}
    /\ history = [h \in Handles |-> [created_under |-> 0, attaches |-> <<>>]]

Init_II ==
    /\ scope = [s \in Scopes |-> NoScope]
    /\ LOCAL_SCOPE = [t \in Threads |-> NoLocalScope]
    /\ SPAN_LINE = [t \in Threads |-> NoSpanLine]
    /\ next_id = 1
    /\ closed = FALSE
    /\ receiver = <<>>
    /\ collector = NoCollector
    /\ opened = [spans |-> 0, attaches |-> 0]

Init_III ==
    /\ trace_local = [t \in Threads |->
           [cur_collector |-> FALSE, enter_stack |-> <<>>, spans |-> <<>>,
            id_prefix |-> ThreadPrefix(t), id_suffix |-> 0]]
    /\ trace_handle = [h \in Handles |->
           [st |-> "absent", inner |-> FALSE, next_suspending_state |-> "Spawning",
            suspending_begin_cycles |-> 0, pending_event |-> 0, parent_id |-> 0,
            parent_begin_cycles |-> 0, parent_event |-> 0, parent_related_id |-> 0,
            parent_state |-> "Local"]]
    /\ queue = <<>>
    /\ collector_closed = FALSE
    /\ emitted = [h \in Handles |-> <<>>]
    /\ traced = [root |-> "absent", local |-> 0, collected |-> <<>>]

\* the traces Scope::root starts, each with a channel and a closed flag of its own
MergeTraces == {1, 2}
MergeSlots == 1..MaxMerged

\* a Scope slot of Part IV before a scope fills it; from is history: the
\* slots of the scopes it was merged from
NoMergeScope ==
    [st |-> "absent", inner |-> FALSE, scope_id |-> 0, to_report |-> <<>>,
     from |-> <<>>]

\* the Acquirer of a trace before Scope::root makes it; calls is history:
\* every span collection handed to submit
NoAcquirer == [made |-> FALSE, closed |-> FALSE, receiver |-> <<>>, calls |-> <<>>]

\* the future before it is wrapped
NoFuture ==
    [pc |-> "unwrapped", t |-> "", guard |-> "", result |-> "", h |-> 1,
     event |-> 0, polls |-> 0, enables |-> 0, releases |-> 0, drops |-> 0]

Init_V == future = NoFuture

Init_IV ==
    /\ merge_scope = [s \in MergeSlots |-> NoMergeScope]
    /\ acquirer = [c \in MergeTraces |-> NoAcquirer]
    /\ merge_next_id = 1

Init ==
    /\ clock = 1
    /\ ret = NoRet
    /\ guards = [t \in Threads |-> <<>>]
    /\ Init_I
    /\ Init_II
    /\ Init_III
    /\ Init_IV
    /\ Init_V

(***************************************************************************)
(* src/trace.rs                                                            *)
(***************************************************************************)
\* start_trace(trace_id, root_event, collector) on thread t
start_trace(t, trace_id, root_event) ==
    LET l == TRACE_LOCAL[t] IN
    /\ IF l.enter_stack # <<>>
       THEN /\ ret' = Returned("start_trace", t, FALSE)
            /\ UNCHANGED <<TRACE_LOCAL, GLOBAL_ID_COUNTER, guards, clock, allocated>>
       ELSE LET a    == new_span_id(l, GLOBAL_ID_COUNTER)
                span == [id |-> a.id, state |-> "Normal", parent_id |-> 0,
                         begin_cycles |-> clock, elapsed_cycles |-> 0,
                         event |-> root_event]
                l2   == SpanGuardInner_enter(span, a.tl)
            IN  /\ allocated.root < Cardinality(TraceIds)
                /\ ret' = Returned("start_trace", t, TRUE)
                /\ TRACE_LOCAL' = [TRACE_LOCAL EXCEPT ![t] =
                       [l2 EXCEPT !.trace_id = trace_id, !.collector = TRUE]]
                /\ GLOBAL_ID_COUNTER' = a.counter
                /\ guards' = [guards EXCEPT ![t] = Append(@,
                       [kind |-> "ScopeGuard", span_index |-> Len(l2.spans), h |-> 0])]
                /\ clock' = clock + 1
                /\ allocated' = [allocated EXCEPT !.root = @ + 1]
    /\ UNCHANGED <<vars_II, vars_III, vars_IV, vars_V>>
    /\ UNCHANGED <<handle, is_closed, tx, finisher, late_ids, history>>

\* a new_span that records the bottom of the stack as the parent
new_span_under_bottom(t, event, budget) ==
    LET l == TRACE_LOCAL[t] IN
    /\ IF l.enter_stack = <<>>
       THEN /\ ret' = Returned("new_span", t, FALSE)
            /\ UNCHANGED <<TRACE_LOCAL, GLOBAL_ID_COUNTER, guards, clock, allocated>>
       ELSE LET a    == new_span_id(l, GLOBAL_ID_COUNTER)
                span == [id |-> a.id, state |-> "Normal",
                         parent_id |-> l.enter_stack[1],
                         begin_cycles |-> clock, elapsed_cycles |-> 0,
                         event |-> event]
                l2   == SpanGuardInner_enter(span, a.tl)
            IN  /\ allocated.local < budget
                /\ ret' = Returned("new_span", t, TRUE)
                /\ TRACE_LOCAL' = [TRACE_LOCAL EXCEPT ![t] = l2]
                /\ GLOBAL_ID_COUNTER' = a.counter
                /\ guards' = [guards EXCEPT ![t] = Append(@,
                       [kind |-> "SpanGuard", span_index |-> Len(l2.spans), h |-> 0])]
                /\ clock' = clock + 1
                /\ allocated' = [allocated EXCEPT !.local = @ + 1]
    /\ UNCHANGED <<vars_II, vars_III, vars_IV, vars_V>>
    /\ UNCHANGED <<handle, is_closed, tx, finisher, late_ids, history>>

\* new_span(event) on thread t, while fewer than budget plain spans were opened
new_span_within(t, event, budget) ==
    LET l == TRACE_LOCAL[t] IN
    /\ IF l.enter_stack = <<>>
       THEN /\ ret' = Returned("new_span", t, FALSE)
            /\ UNCHANGED <<TRACE_LOCAL, GLOBAL_ID_COUNTER, guards, clock, allocated>>
       ELSE LET a    == new_span_id(l, GLOBAL_ID_COUNTER)
                span == [id |-> a.id, state |-> "Normal",
                         parent_id |-> Last(l.enter_stack),
                         begin_cycles |-> clock, elapsed_cycles |-> 0,
                         event |-> event]
                l2   == SpanGuardInner_enter(span, a.tl)
            IN  /\ allocated.local < budget
                /\ ret' = Returned("new_span", t, TRUE)
                /\ TRACE_LOCAL' = [TRACE_LOCAL EXCEPT ![t] = l2]
                /\ GLOBAL_ID_COUNTER' = a.counter
                /\ guards' = [guards EXCEPT ![t] = Append(@,
                       [kind |-> "SpanGuard", span_index |-> Len(l2.spans), h |-> 0])]
                /\ clock' = clock + 1
                /\ allocated' = [allocated EXCEPT !.local = @ + 1]
    /\ UNCHANGED <<vars_II, vars_III, vars_IV, vars_V>>
    /\ UNCHANGED <<handle, is_closed, tx, finisher, late_ids, history>>

\* new_span(event) on thread t
new_span(t, event) == new_span_within(t, event, MaxLocal)

\* impl Drop for SpanGuard: the newest guard of thread t is a SpanGuard
SpanGuard_drop(t) ==
    /\ guards[t] # <<>>
    /\ Last(guards[t]).kind = "SpanGuard"
    /\ TRACE_LOCAL' = [TRACE_LOCAL EXCEPT ![t] =
           SpanGuardInner_exit(Last(guards[t]).span_index, @, clock)]
    /\ clock' = clock + 1
    /\ guards' = [guards EXCEPT ![t] = Front(@)]
    /\ ret' = NoRet
    /\ UNCHANGED <<vars_II, vars_III, vars_IV, vars_V>>
    /\ UNCHANGED <<GLOBAL_ID_COUNTER, handle, is_closed, tx, finisher,
                   allocated, late_ids, history>>

\* impl Drop for ScopeGuard: the newest guard of thread t is the ScopeGuard
ScopeGuard_drop(t) ==
    /\ guards[t] # <<>>
    /\ Last(guards[t]).kind = "ScopeGuard"
    /\ TRACE_LOCAL[t].collector
    /\ LET l1 == SpanGuardInner_exit(Last(guards[t]).span_index, TRACE_LOCAL[t], clock)
           l2 == take_spans_and_properties(l1)
       IN  /\ collect_span_set([trace_id |-> l1.trace_id, spans |-> l1.spans,
                                properties |-> l1.properties])
           /\ TRACE_LOCAL' = [TRACE_LOCAL EXCEPT ![t] =
                  [l2 EXCEPT !.collector = FALSE, !.trace_id = 0]]
    /\ clock' = clock + 1
    /\ guards' = [guards EXCEPT ![t] = Front(@)]
    /\ ret' = NoRet
    /\ UNCHANGED <<vars_II, vars_III, vars_IV, vars_V>>
    /\ UNCHANGED <<GLOBAL_ID_COUNTER, handle, is_closed, finisher, allocated, history>>

RECURSIVE SumLens(_)
SumLens(sets) ==
    IF sets = <<>> THEN 0
    ELSE Len(Head(sets).properties.span_ids) + SumLens(Tail(sets))

\* the property entries held by the threads, the channel and the finisher
RECURSIVE LocalLens(_)
LocalLens(ts) ==
    IF ts = {} THEN 0
    ELSE LET t == CHOOSE x \in ts : TRUE
         IN  Len(TRACE_LOCAL[t].properties.span_ids) + LocalLens(ts \ {t})

PropertiesHeld ==
    LocalLens(DOMAIN TRACE_LOCAL) + SumLens(tx) + Len(finisher.properties.span_ids)

\* an append_property that records nothing for an empty payload
append_property_nonempty(l, payload) ==
    IF payload = <<>> THEN l
    ELSE [l EXCEPT !.properties.span_ids = Append(@, Last(l.enter_stack)),
                   !.properties.property_lens = Append(@, Len(payload)),
                   !.properties.payload = @ \o payload]

\* an append_property that records the length of every payload as one byte
append_property_unmeasured(l, payload) ==
    [l EXCEPT !.properties.span_ids = Append(@, Last(l.enter_stack)),
              !.properties.property_lens = Append(@, 1),
              !.properties.payload = @ \o payload]

\* append_property past the check of the stack: the local after the pushes
append_property(l, payload) ==
    [l EXCEPT !.properties.span_ids = Append(@, Last(l.enter_stack)),
              !.properties.property_lens = Append(@, Len(payload)),
              !.properties.payload = @ \o payload]

\* a new_property that does not look at the stack
new_property_unchecked(t, payload) ==
    LET l == TRACE_LOCAL[t] IN
    /\ PropertiesHeld < MaxProps
    /\ TRACE_LOCAL' = [TRACE_LOCAL EXCEPT ![t] =
           [l EXCEPT !.properties.span_ids = Append(@, 0),
                     !.properties.property_lens = Append(@, Len(payload)),
                     !.properties.payload = @ \o payload]]
    /\ ret' = Returned("new_property", t, l.enter_stack # <<>>)
    /\ UNCHANGED <<vars_II, vars_III, vars_IV, vars_V>>
    /\ UNCHANGED <<GLOBAL_ID_COUNTER, guards, clock, handle, is_closed, tx, finisher,
                   allocated, late_ids, history>>

\* new_property(p) on thread t; ret.some tells whether a trace was active
new_property(t, payload) ==
    LET l == TRACE_LOCAL[t] IN
    /\ IF l.enter_stack = <<>>
       THEN /\ ret' = Returned("new_property", t, FALSE)
            /\ UNCHANGED TRACE_LOCAL
       ELSE /\ PropertiesHeld < MaxProps
            /\ ret' = Returned("new_property", t, TRUE)
            /\ TRACE_LOCAL' = [TRACE_LOCAL EXCEPT ![t] = append_property(l, payload)]
    /\ UNCHANGED <<vars_II, vars_III, vars_IV, vars_V>>
    /\ UNCHANGED <<GLOBAL_ID_COUNTER, guards, clock, handle, is_closed, tx, finisher,
                   allocated, late_ids, history>>

(***************************************************************************)
(* src/thread.rs                                                           *)
(***************************************************************************)
\* new_async_handle() on thread t, giving handle h
new_async_handle(t, h) ==
    LET l == TRACE_LOCAL[t] IN
    /\ handle[h].st = "absent"
    /\ \A g \in Handles : g < h => handle[g].st # "absent"
    /\ ret' = NoRet
    /\ IF l.enter_stack = <<>>
       THEN /\ handle' = [handle EXCEPT ![h] = [NoHandle EXCEPT !.st = "live"]]
            /\ UNCHANGED <<clock, history>>
       ELSE /\ handle' = [handle EXCEPT ![h] =
                   [st |-> "live", inner |-> TRUE, trace_id |-> l.trace_id,
                    collector |-> l.collector,
                    next_pending_parent_id |-> Last(l.enter_stack),
                    begin_cycles |-> clock]]
            /\ clock' = clock + 1
            /\ history' = [history EXCEPT ![h].created_under = Last(l.enter_stack)]
    /\ UNCHANGED <<vars_II, vars_III, vars_IV, vars_V>>
    /\ UNCHANGED <<TRACE_LOCAL, GLOBAL_ID_COUNTER, guards, is_closed, tx,
                   finisher, allocated, late_ids>>

\* AsyncHandle::new_span: the thread already has a trace
AsyncHandle_new_span_within(t, h, event, budget) ==
    LET l    == TRACE_LOCAL[t]
        hi   == handle[h]
        a    == new_span_id(l, GLOBAL_ID_COUNTER)
        span == [id |-> a.id, state |-> "Normal",
                 parent_id |-> Last(l.enter_stack),
                 begin_cycles |-> IF hi.begin_cycles # 0 THEN hi.begin_cycles ELSE clock,
                 elapsed_cycles |-> 0, event |-> event]
        l2   == SpanGuardInner_enter(span, a.tl)
    IN  /\ allocated.local < budget
        /\ ret' = Returned("AsyncHandle_start_trace", t, TRUE)
        /\ TRACE_LOCAL' = [TRACE_LOCAL EXCEPT ![t] = l2]
        /\ GLOBAL_ID_COUNTER' = a.counter
        /\ handle' = [handle EXCEPT ![h].begin_cycles = 0]
        /\ guards' = [guards EXCEPT ![t] = Append(@,
               [kind |-> "SpanGuard", span_index |-> Len(l2.spans), h |-> h])]
        /\ clock' = IF hi.begin_cycles # 0 THEN clock ELSE clock + 1
        /\ allocated' = [allocated EXCEPT !.local = @ + 1]
        /\ UNCHANGED <<is_closed, tx, finisher, late_ids, history>>

\* AsyncHandle::new_span(event) of handle h on thread t, which has a trace
AsyncHandle_new_span(t, h, event) ==
    AsyncHandle_new_span_within(t, h, event, MaxLocal)

\* a new_scope whose Pending span names no parent
new_scope_pending_span_orphan(hi, pending_id, now_cycle, event) ==
    [id |-> pending_id, state |-> "Pending",
     parent_id |-> 0,
     begin_cycles |-> hi.begin_cycles,
     elapsed_cycles |-> wrapping_sub(now_cycle, hi.begin_cycles),
     event |-> event]

\* AsyncHandle::new_scope, the Pending span: the wait since the handle was
\* created or last released
new_scope_pending_span(hi, pending_id, now_cycle, event) ==
    [id |-> pending_id, state |-> "Pending",
     parent_id |-> hi.next_pending_parent_id,
     begin_cycles |-> hi.begin_cycles,
     elapsed_cycles |-> wrapping_sub(now_cycle, hi.begin_cycles),
     event |-> event]

\* a new_scope that reads the clock a second time for the entered span
new_scope_span_resampled(span_id, pending_id, now_cycle, event) ==
    [id |-> span_id, state |-> "Normal", parent_id |-> pending_id,
     begin_cycles |-> now_cycle + 1, elapsed_cycles |-> 0, event |-> event]

\* AsyncHandle::new_scope, the span entered after the Pending span
new_scope_span(span_id, pending_id, now_cycle, event) ==
    [id |-> span_id, state |-> "Normal", parent_id |-> pending_id,
     begin_cycles |-> now_cycle, elapsed_cycles |-> 0, event |-> event]

\* a new_scope that chains the next Pending span to this Pending span
new_scope_next_pending_parent_id_pending(span_id, pending_id) == pending_id

\* AsyncHandle::new_scope, the parent it leaves for the next Pending span
new_scope_next_pending_parent_id(span_id, pending_id) == span_id

\* a new_scope that does not ask whether the collector is closed
AsyncHandle_new_scope_of_closed(t, h, event) ==
    LET l  == TRACE_LOCAL[t]
        hi == handle[h]
    IN  IF ~hi.collector
        THEN /\ ret' = Returned("AsyncHandle_start_trace", t, FALSE)
             /\ UNCHANGED <<TRACE_LOCAL, GLOBAL_ID_COUNTER, guards, handle, clock,
                            is_closed, tx, finisher, allocated, late_ids, history>>
        ELSE LET now_cycle    == clock
                 a1           == new_span_id(l, GLOBAL_ID_COUNTER)
                 pending_id   == a1.id
                 pending_span == new_scope_pending_span(hi, pending_id, now_cycle, event)
                 l1           == [a1.tl EXCEPT !.spans = Append(@, pending_span)]
                 a2           == new_span_id(l1, a1.counter)
                 span_id      == a2.id
                 span         == new_scope_span(span_id, pending_id, now_cycle, event)
                 l2           == SpanGuardInner_enter(span, a2.tl)
             IN  /\ allocated.attach < MaxAttach
                 /\ ret' = Returned("AsyncHandle_start_trace", t, TRUE)
                 /\ TRACE_LOCAL' = [TRACE_LOCAL EXCEPT ![t] =
                        [l2 EXCEPT !.trace_id = hi.trace_id, !.collector = TRUE]]
                 /\ GLOBAL_ID_COUNTER' = a2.counter
                 /\ handle' = [handle EXCEPT ![h].next_pending_parent_id =
                        new_scope_next_pending_parent_id(span_id, pending_id)]
                 /\ guards' = [guards EXCEPT ![t] = Append(@,
                        [kind |-> "AsyncScopeGuard", span_index |-> Len(l2.spans), h |-> h])]
                 /\ clock' = clock + 1
                 /\ allocated' = [allocated EXCEPT !.attach = @ + 1]
                 /\ history' = [history EXCEPT ![h].attaches = Append(@,
                        [pending |-> pending_span, settle |-> span])]
                 /\ UNCHANGED <<is_closed, tx, finisher, late_ids>>

\* AsyncHandle::new_scope: the thread has no trace
AsyncHandle_new_scope(t, h, event) ==
    LET l  == TRACE_LOCAL[t]
        hi == handle[h]
    IN  IF ~hi.collector
        THEN /\ ret' = Returned("AsyncHandle_start_trace", t, FALSE)
             /\ UNCHANGED <<TRACE_LOCAL, GLOBAL_ID_COUNTER, guards, handle, clock,
                            is_closed, tx, finisher, allocated, late_ids, history>>
        ELSE IF is_closed
        THEN /\ handle' = [handle EXCEPT ![h].collector = FALSE]
             /\ ret' = Returned("AsyncHandle_start_trace", t, FALSE)
             /\ UNCHANGED <<TRACE_LOCAL, GLOBAL_ID_COUNTER, guards, clock,
                            is_closed, tx, finisher, allocated, late_ids, history>>
        ELSE LET now_cycle    == clock
                 a1           == new_span_id(l, GLOBAL_ID_COUNTER)
                 pending_id   == a1.id
                 pending_span == new_scope_pending_span(hi, pending_id, now_cycle, event)
                 l1           == [a1.tl EXCEPT !.spans = Append(@, pending_span)]
                 a2           == new_span_id(l1, a1.counter)
                 span_id      == a2.id
                 span         == new_scope_span(span_id, pending_id, now_cycle, event)
                 l2           == SpanGuardInner_enter(span, a2.tl)
             IN  /\ allocated.attach < MaxAttach
                 /\ ret' = Returned("AsyncHandle_start_trace", t, TRUE)
                 /\ TRACE_LOCAL' = [TRACE_LOCAL EXCEPT ![t] =
                        [l2 EXCEPT !.trace_id = hi.trace_id, !.collector = TRUE]]
                 /\ GLOBAL_ID_COUNTER' = a2.counter
                 /\ handle' = [handle EXCEPT ![h].next_pending_parent_id =
                        new_scope_next_pending_parent_id(span_id, pending_id)]
                 /\ guards' = [guards EXCEPT ![t] = Append(@,
                        [kind |-> "AsyncScopeGuard", span_index |-> Len(l2.spans), h |-> h])]
                 /\ clock' = clock + 1
                 /\ allocated' = [allocated EXCEPT !.attach = @ + 1]
                 /\ history' = [history EXCEPT ![h].attaches = Append(@,
                        [pending |-> pending_span, settle |-> span])]
                 /\ UNCHANGED <<is_closed, tx, finisher, late_ids>>

\* a start_trace of a handle that attaches whatever the thread's stack holds
AsyncHandle_start_trace_unchecked(t, h, event) ==
    /\ handle[h].st = "live"
    /\ ~Borrowed(h)
    /\ UNCHANGED <<vars_II, vars_III, vars_IV, vars_V>>
    /\ IF ~handle[h].inner
       THEN /\ ret' = Returned("AsyncHandle_start_trace", t, FALSE)
            /\ UNCHANGED <<TRACE_LOCAL, GLOBAL_ID_COUNTER, guards, handle, clock,
                           is_closed, tx, finisher, allocated, late_ids, history>>
       ELSE AsyncHandle_new_scope(t, h, event)

\* a start_trace of a handle that does not stop at a handle with no inner
AsyncHandle_start_trace_of_dormant(t, h, event) ==
    /\ handle[h].st = "live"
    /\ ~Borrowed(h)
    /\ UNCHANGED <<vars_II, vars_III, vars_IV, vars_V>>
    /\ IF TRACE_LOCAL[t].enter_stack # <<>>
       THEN AsyncHandle_new_span(t, h, event)
       ELSE AsyncHandle_new_scope(t, h, event)

\* AsyncHandle::start_trace(event) of handle h, called on thread t
AsyncHandle_start_trace(t, h, event) ==
    /\ handle[h].st = "live"
    /\ ~Borrowed(h)
    /\ UNCHANGED <<vars_II, vars_III, vars_IV, vars_V>>
    /\ IF ~handle[h].inner
       THEN /\ ret' = Returned("AsyncHandle_start_trace", t, FALSE)
            /\ UNCHANGED <<TRACE_LOCAL, GLOBAL_ID_COUNTER, guards, handle, clock,
                           is_closed, tx, finisher, allocated, late_ids, history>>
       ELSE IF TRACE_LOCAL[t].enter_stack # <<>>
            THEN AsyncHandle_new_span(t, h, event)
            ELSE AsyncHandle_new_scope(t, h, event)

\* impl Drop for AsyncScopeGuard: the newest guard of thread t is one
AsyncScopeGuard_drop(t) ==
    /\ guards[t] # <<>>
    /\ Last(guards[t]).kind = "AsyncScopeGuard"
    /\ TRACE_LOCAL[t].collector
    /\ LET g  == Last(guards[t])
           l1 == SpanGuardInner_exit(g.span_index, TRACE_LOCAL[t], clock)
           l2 == take_spans_and_properties(l1)
       IN  /\ handle' = [handle EXCEPT ![g.h].begin_cycles = clock]
           /\ collect_span_set([trace_id |-> l1.trace_id, spans |-> l1.spans,
                                properties |-> l1.properties])
           /\ TRACE_LOCAL' = [TRACE_LOCAL EXCEPT ![t] =
                  [l2 EXCEPT !.collector = FALSE, !.trace_id = 0]]
    /\ clock' = clock + 1
    /\ guards' = [guards EXCEPT ![t] = Front(@)]
    /\ ret' = NoRet
    /\ UNCHANGED <<vars_II, vars_III, vars_IV, vars_V>>
    /\ UNCHANGED <<GLOBAL_ID_COUNTER, is_closed, finisher, allocated, history>>

\* the AsyncHandle h goes out of scope (no Drop impl: its fields are freed)
AsyncHandle_drop(h) ==
    /\ handle[h].st = "live"
    /\ ~Borrowed(h)
    /\ handle' = [handle EXCEPT ![h].st = "dropped", ![h].collector = FALSE]
    /\ ret' = NoRet
    /\ UNCHANGED <<vars_II, vars_III, vars_IV, vars_V>>
    /\ UNCHANGED <<TRACE_LOCAL, GLOBAL_ID_COUNTER, guards, clock, is_closed,
                   tx, finisher, allocated, late_ids, history>>

(***************************************************************************)
(* src/collector/sync_impl.rs                                              *)
(***************************************************************************)
\* Finisher::finish, first statement: is_closed.store(true)
finish_store ==
    /\ finisher.pc = "idle"
    /\ is_closed' = TRUE
    /\ finisher' = [finisher EXCEPT !.pc = "first"]
    /\ ret' = NoRet
    /\ UNCHANGED <<vars_II, vars_III, vars_IV, vars_V>>
    /\ UNCHANGED <<TRACE_LOCAL, GLOBAL_ID_COUNTER, guards, handle, clock, tx,
                   allocated, late_ids, history>>

\* Finisher::finish, the first try_recv: an empty channel returns the default
finish_first_recv ==
    /\ finisher.pc = "first"
    /\ IF tx = <<>>
       THEN /\ finisher' = [finisher EXCEPT !.pc = "done"]
            /\ UNCHANGED tx
       ELSE /\ finisher' = [pc |-> "loop", trace_id |-> Head(tx).trace_id,
                            spans |-> Head(tx).spans,
                            properties |-> Head(tx).properties]
            /\ tx' = Tail(tx)
    /\ ret' = NoRet
    /\ UNCHANGED <<vars_II, vars_III, vars_IV, vars_V>>
    /\ UNCHANGED <<TRACE_LOCAL, GLOBAL_ID_COUNTER, guards, handle, clock,
                   is_closed, allocated, late_ids, history>>

\* Finisher::finish, one turn of the while-let loop
finish_loop_recv ==
    /\ finisher.pc = "loop"
    /\ IF tx = <<>>
       THEN /\ finisher' = [finisher EXCEPT !.pc = "done"]
            /\ UNCHANGED tx
       ELSE LET s == Head(tx) IN
            /\ finisher' = [finisher EXCEPT
                   !.spans = @ \o s.spans,
                   !.properties.span_ids = @ \o s.properties.span_ids,
                   !.properties.property_lens = @ \o s.properties.property_lens,
                   !.properties.payload = @ \o s.properties.payload]
            /\ tx' = Tail(tx)
    /\ ret' = NoRet
    /\ UNCHANGED <<vars_II, vars_III, vars_IV, vars_V>>
    /\ UNCHANGED <<TRACE_LOCAL, GLOBAL_ID_COUNTER, guards, handle, clock,
                   is_closed, allocated, late_ids, history>>

(***************************************************************************)
(* Part II: src/trace/scope.rs, src/local/local_collector.rs,              *)
(* src/span/mod.rs, src/trace/collector.rs; specification SpecCollect.     *)
(* One trace: one channel, one closed flag, every Acquirer a clone of the  *)
(* one made by Scope::root.                                                *)
(***************************************************************************)
\* Acquirer::is_shutdown
is_shutdown == closed

\* Acquirer::submit, once for each of span_collections: a no-op once closed
Acquirer_submit(span_collections) ==
    receiver' = IF closed THEN receiver ELSE receiver \o span_collections

\* whether a clone of the Acquirer (a Sender of the channel) is alive
SendersAlive ==
    \/ \E s \in Scopes : scope[s].st = "live" /\ scope[s].inner
    \/ \E t \in Threads : LOCAL_SCOPE[t].acquirers > 0

\* the lowest slot not yet used
FreshScope(s) ==
    /\ scope[s].st = "absent"
    /\ \A q \in Scopes : q < s => scope[q].st # "absent"

\* Scope::new; acquirers lists the parent scope id paired with each Acquirer
Scope_new(acquirers, event, scope_id, now) ==
    LET to_report == IF is_shutdown THEN <<>>
                     ELSE [i \in DOMAIN acquirers |->
                              begin_with(scope_id, acquirers[i], now, event)]
    IN  IF to_report = <<>>
        THEN [st |-> "live", inner |-> FALSE, scope_id |-> 0, to_report |-> <<>>]
        ELSE [st |-> "live", inner |-> TRUE, scope_id |-> scope_id,
              to_report |-> to_report]

\* Scope::root
Scope_root(event) ==
    /\ scope[1].st = "absent"
    /\ scope' = [scope EXCEPT ![1] = Scope_new(<<0>>, event, next_id, clock)]
    /\ next_id' = next_id + 1
    /\ clock' = clock + 1
    /\ ret' = NoRet
    /\ UNCHANGED <<guards, LOCAL_SCOPE, SPAN_LINE, closed, receiver, collector, opened>>
    /\ UNCHANGED <<vars_I, vars_III, vars_IV, vars_V>>

\* Scope::merge, the iterator it hands to Scope::new
RECURSIVE merge_acquirers(_)
merge_acquirers(scopes) ==
    IF scopes = <<>> THEN <<>>
    ELSE (IF Head(scopes).inner
          THEN [i \in DOMAIN Head(scopes).to_report |-> Head(scopes).scope_id]
          ELSE <<>>) \o merge_acquirers(Tail(scopes))

\* Scope::child of the scope in slot p, the new scope going to slot s
Scope_child(p, s, event) ==
    /\ scope[p].st = "live"
    /\ FreshScope(s)
    /\ scope' = [scope EXCEPT ![s] =
           Scope_new(merge_acquirers(<<scope[p]>>), event, next_id, clock)]
    /\ next_id' = next_id + 1
    /\ clock' = clock + 1
    /\ ret' = NoRet
    /\ UNCHANGED <<guards, LOCAL_SCOPE, SPAN_LINE, closed, receiver, collector, opened>>
    /\ UNCHANGED <<vars_I, vars_III, vars_IV, vars_V>>

\* the Scope in slot s goes out of scope; impl Drop for ScopeInner
Scope_drop(s) ==
    /\ scope[s].st = "live"
    /\ LET now == clock IN
       /\ Acquirer_submit([i \in DOMAIN scope[s].to_report |->
              ScopeSpan(end_with(scope[s].to_report[i], now))])
       /\ clock' = IF scope[s].inner THEN clock + 1 ELSE clock
    /\ scope' = [scope EXCEPT ![s].st = "dropped", ![s].inner = FALSE,
                              ![s].to_report = <<>>]
    /\ ret' = NoRet
    /\ UNCHANGED <<guards, LOCAL_SCOPE, SPAN_LINE, next_id, closed, collector, opened>>
    /\ UNCHANGED <<vars_I, vars_III, vars_IV, vars_V>>

\* LocalScope::is_occupied on thread t
LocalScope_is_occupied(t) == LOCAL_SCOPE[t].occupied

\* SpanLine::register_local_collector on the line l: whether a collector
\* was handed out, and the line left behind
register_local_collector(l) ==
    IF l.registered
    THEN [some |-> FALSE, line |-> l]
    ELSE [some |-> TRUE, line |-> [l EXCEPT !.registered = TRUE]]

\* LocalScopeGuard::new: the slot takes the scope's id and Acquirer clones,
\* and a local collector is started on the span line if none is running
LocalScopeGuard_new(t, s) ==
    LET c == register_local_collector(SPAN_LINE[t]) IN
    /\ LOCAL_SCOPE' = [LOCAL_SCOPE EXCEPT ![t] =
           [occupied |-> TRUE, scope_id |-> scope[s].scope_id,
            acquirers |-> Len(scope[s].to_report), local_collector |-> c.some]]
    /\ SPAN_LINE' = [SPAN_LINE EXCEPT ![t] = c.line]

\* a try_attach that attaches whatever the slot holds
Scope_attach_unchecked(t, s) ==
    /\ scope[s].st = "live"
    /\ scope[s].inner
    /\ opened.attaches < MaxAttaches
    /\ ret' = Returned("try_attach", t, TRUE)
    /\ LocalScopeGuard_new(t, s)
    /\ opened' = [opened EXCEPT !.attaches = @ + 1]
    /\ UNCHANGED <<clock, guards, scope, next_id, closed, receiver, collector>>
    /\ UNCHANGED <<vars_I, vars_III, vars_IV, vars_V>>

\* Scope::try_attach of the (non-empty) scope in slot s on thread t
Scope_try_attach(t, s) ==
    /\ scope[s].st = "live"
    /\ scope[s].inner
    /\ IF LocalScope_is_occupied(t)
       THEN /\ ret' = Returned("try_attach", t, FALSE)
            /\ UNCHANGED <<LOCAL_SCOPE, SPAN_LINE, opened>>
       ELSE /\ opened.attaches < MaxAttaches
            /\ ret' = Returned("try_attach", t, TRUE)
            /\ LocalScopeGuard_new(t, s)
            /\ opened' = [opened EXCEPT !.attaches = @ + 1]
    /\ UNCHANGED <<clock, guards, scope, next_id, closed, receiver, collector>>
    /\ UNCHANGED <<vars_I, vars_III, vars_IV, vars_V>>

\* the local span guard of a new span on thread t, a local collector
\* running there: SpanLine::start_span
LocalSpanGuard_new(t, event) ==
    LET l      == SPAN_LINE[t]
        parent == IF l.open = <<>> THEN 0 ELSE l.spans[Last(l.open)].id
        span   == begin_with(next_id, parent, clock, event)
    IN  /\ l.registered
        /\ opened.spans < MaxSpans
        /\ opened' = [opened EXCEPT !.spans = @ + 1]
        /\ SPAN_LINE' = [SPAN_LINE EXCEPT ![t] =
               [l EXCEPT !.spans = Append(@, span),
                         !.open = Append(@, Len(l.spans) + 1)]]
        /\ next_id' = next_id + 1
        /\ clock' = clock + 1
        /\ ret' = NoRet
        /\ UNCHANGED <<guards, scope, LOCAL_SCOPE, closed, receiver, collector>>
        /\ UNCHANGED <<vars_I, vars_III, vars_IV, vars_V>>

\* the newest local span guard of thread t is released: SpanLine::finish_span
LocalSpanGuard_drop(t) ==
    LET l   == SPAN_LINE[t]
        idx == Last(l.open)
    IN  /\ l.open # <<>>
        /\ SPAN_LINE' = [SPAN_LINE EXCEPT ![t] =
               [l EXCEPT !.spans[idx].end_cycle = clock,
                         !.spans[idx].descendant_count = Len(l.spans) - idx,
                         !.open = Front(@)]]
        /\ clock' = clock + 1
        /\ ret' = NoRet
        /\ UNCHANGED <<guards, scope, LOCAL_SCOPE, next_id, closed, receiver, collector, opened>>
        /\ UNCHANGED <<vars_I, vars_III, vars_IV, vars_V>>

\* Scope::child_from_local on thread t, a scope attached there and its
\* local collector running, the new scope going to slot s:
\* a spawn span is recorded on the span line and becomes the scope's parent
LocalScope_new_child_scope(t, s, event) ==
    LET ls     == LOCAL_SCOPE[t]
        l      == SPAN_LINE[t]
        parent == IF l.open = <<>> THEN 0 ELSE l.spans[Last(l.open)].id
        spawn  == [begin_with(next_id, parent, clock, event) EXCEPT
                      !.end_cycle = clock, !.is_spawn_span = TRUE]
    IN  /\ ls.occupied
        /\ ls.local_collector
        /\ FreshScope(s)
        /\ opened.spans < MaxSpans
        /\ opened' = [opened EXCEPT !.spans = @ + 1]
        /\ SPAN_LINE' = [SPAN_LINE EXCEPT ![t] =
               [l EXCEPT !.spans = Append(@, spawn)]]
        /\ scope' = [scope EXCEPT ![s] =
               Scope_new([i \in 1..ls.acquirers |-> spawn.id], event,
                         next_id + 1, clock + 1)]
        /\ next_id' = next_id + 2
        /\ clock' = clock + 2
        /\ ret' = NoRet
        /\ UNCHANGED <<guards, LOCAL_SCOPE, closed, receiver, collector>>
        /\ UNCHANGED <<vars_I, vars_III, vars_IV, vars_V>>

\* LocalCollector::collect on the line l: SpanLine::unregister_and_collect
LocalCollector_collect(l) == [spans |-> l.spans, line |-> NoSpanLine]

\* the LocalScopeGuard of thread t is released: its local collector, if it
\* has one, is collected and the spans go to every Acquirer as LocalSpans
LocalScopeGuard_drop(t) ==
    LET ls == LOCAL_SCOPE[t]
        c  == LocalCollector_collect(SPAN_LINE[t])
    IN  /\ ls.occupied
        /\ IF ls.local_collector
           THEN /\ SPAN_LINE' = [SPAN_LINE EXCEPT ![t] = c.line]
                /\ clock' = clock + 1
                /\ Acquirer_submit(
                       IF c.spans = <<>> THEN <<>>
                       ELSE [i \in 1..ls.acquirers |->
                                LocalSpans(c.spans, ls.scope_id)])
           ELSE UNCHANGED <<SPAN_LINE, clock, receiver>>
        /\ LOCAL_SCOPE' = [LOCAL_SCOPE EXCEPT ![t] = NoLocalScope]
        /\ ret' = NoRet
        /\ UNCHANGED <<guards, scope, next_id, closed, collector, opened>>
        /\ UNCHANGED <<vars_I, vars_III, vars_IV, vars_V>>

\* LocalCollector::try_start on thread t, called by the user
LocalCollector_try_start(t) ==
    LET c == register_local_collector(SPAN_LINE[t]) IN
    /\ ret' = Returned("try_start", t, c.some)
    /\ SPAN_LINE' = [SPAN_LINE EXCEPT ![t] = c.line]
    /\ UNCHANGED <<clock, guards, scope, LOCAL_SCOPE, next_id, closed, receiver,
                   collector, opened>>
    /\ UNCHANGED <<vars_I, vars_III, vars_IV, vars_V>>

\* impl Drop for LocalCollector, not collected: the LocalCollector the user
\* started on thread t goes out of scope and the span line is cleared
LocalCollector_drop(t) ==
    /\ SPAN_LINE[t].registered
    /\ ~LOCAL_SCOPE[t].local_collector
    /\ SPAN_LINE' = [SPAN_LINE EXCEPT ![t] = NoSpanLine]
    /\ ret' = NoRet
    /\ UNCHANGED <<clock, guards, scope, LOCAL_SCOPE, next_id, closed, receiver,
                   collector, opened>>
    /\ UNCHANGED <<vars_I, vars_III, vars_IV, vars_V>>

\* a map of spawn spans that records nothing
insert_nothing(map, k, v) == map

\* HashMap::insert
insert(map, k, v) == [x \in DOMAIN map \cup {k} |-> IF x = k THEN v ELSE map[x]]

\* a collect that keeps unfinished spans
unfinished_never(span) == FALSE

\* a collect that takes a span for unfinished when its begin_cycle is zero
unfinished_by_begin(span) == is_zero(span.begin_cycle)

\* remove_unfinished_and_spawn_spans: the test for an unfinished span
unfinished(span) == is_zero(span.end_cycle)

\* remove_unfinished_and_spawn_spans, the LocalSpans arm from the i-th span on
RECURSIVE local_spans_arm(_, _, _, _, _, _)
local_spans_arm(local_spans, parent_span_id, i, remaining_descendant_count, acc, anchor) ==
    IF i > Len(local_spans) THEN acc
    ELSE LET span == local_spans[i] IN
         IF remaining_descendant_count > 0
         THEN IF span.is_spawn_span
              THEN local_spans_arm(local_spans, parent_span_id, i + 1,
                       remaining_descendant_count - 1,
                       [acc EXCEPT !.parent_ids_of_spawn_spans =
                           insert(@, span.id, span.parent_id)], anchor)
              ELSE local_spans_arm(local_spans, parent_span_id, i + 1,
                       remaining_descendant_count - 1,
                       [acc EXCEPT !.spans = Append(@, build_span(span, anchor))],
                       anchor)
         ELSE IF unfinished(span)
         THEN local_spans_arm(local_spans, parent_span_id, i + 1,
                  remaining_descendant_count, acc, anchor)
         ELSE IF span.is_spawn_span
         THEN local_spans_arm(local_spans, parent_span_id, i + 1,
                  remaining_descendant_count,
                  [acc EXCEPT !.parent_ids_of_spawn_spans =
                      insert(@, span.id, parent_span_id)], anchor)
         ELSE local_spans_arm(local_spans, parent_span_id, i + 1,
                  span.descendant_count,
                  [acc EXCEPT !.spans = Append(@,
                      build_span([span EXCEPT !.parent_id = parent_span_id], anchor))],
                  anchor)

\* a loop over span_collections that looks the parent of a ScopeSpan up in the
\* map of spawn spans when the ScopeSpan arrives
RECURSIVE span_collections_loop_eager(_, _, _, _)
span_collections_loop_eager(span_collections, parent_id_of_root, acc, anchor) ==
    IF span_collections = <<>> THEN acc
    ELSE LET sc == Head(span_collections) IN
         span_collections_loop_eager(Tail(span_collections), parent_id_of_root,
             IF sc.kind = "LocalSpans"
             THEN local_spans_arm(sc.spans, sc.parent_span_id, 1, 0, acc, anchor)
             ELSE IF is_root(sc.span)
             THEN [acc EXCEPT !.spans = Append(@,
                      build_span([sc.span EXCEPT !.parent_id = parent_id_of_root],
                                 anchor))]
             ELSE [acc EXCEPT !.spans = Append(@,
                      build_span(IF sc.span.parent_id \in DOMAIN acc.parent_ids_of_spawn_spans
                                 THEN [sc.span EXCEPT !.parent_id =
                                          acc.parent_ids_of_spawn_spans[sc.span.parent_id]]
                                 ELSE sc.span, anchor))],
             anchor)

\* remove_unfinished_and_spawn_spans, the loop over span_collections
RECURSIVE span_collections_loop(_, _, _, _)
span_collections_loop(span_collections, parent_id_of_root, acc, anchor) ==
    IF span_collections = <<>> THEN acc
    ELSE LET sc == Head(span_collections) IN
         span_collections_loop(Tail(span_collections), parent_id_of_root,
             IF sc.kind = "LocalSpans"
             THEN local_spans_arm(sc.spans, sc.parent_span_id, 1, 0, acc, anchor)
             ELSE IF is_root(sc.span)
             THEN [acc EXCEPT !.spans = Append(@,
                      build_span([sc.span EXCEPT !.parent_id = parent_id_of_root],
                                 anchor))]
             ELSE [acc EXCEPT !.pending_scope_spans = Append(@, sc.span)],
             anchor)

\* a collect that makes a root of a deferred ScopeSpan made by a spawn span
pending_scope_span_parent_cut(span, parent_ids_of_spawn_spans) ==
    IF span.parent_id \in DOMAIN parent_ids_of_spawn_spans
    THEN [span EXCEPT !.parent_id = 0]
    ELSE span

\* a collect that leaves the parent of a deferred ScopeSpan as submitted
pending_scope_span_parent_kept(span, parent_ids_of_spawn_spans) == span

\* remove_unfinished_and_spawn_spans: a deferred ScopeSpan, its parent looked
\* up in the map of spawn spans
pending_scope_span_parent(span, parent_ids_of_spawn_spans) ==
    IF span.parent_id \in DOMAIN parent_ids_of_spawn_spans
    THEN [span EXCEPT !.parent_id = parent_ids_of_spawn_spans[span.parent_id]]
    ELSE span

\* Collector::remove_unfinished_and_spawn_spans
remove_unfinished_and_spawn_spans(span_collections, parent_id_of_root, anchor) ==
    LET acc == span_collections_loop(span_collections, parent_id_of_root,
                   [spans |-> <<>>, pending_scope_spans |-> <<>>,
                    parent_ids_of_spawn_spans |-> <<>>], anchor)
    IN  acc.spans \o
        [i \in DOMAIN acc.pending_scope_spans |->
            build_span(pending_scope_span_parent(acc.pending_scope_spans[i],
                           acc.parent_ids_of_spawn_spans), anchor)]

\* Collector::collect: the first root ScopeSpan among the drained submissions
find_root(span_collections) ==
    LET R == {i \in DOMAIN span_collections :
                 /\ span_collections[i].kind = "ScopeSpan"
                 /\ is_root(span_collections[i].span)}
    IN  IF R = {} THEN None
        ELSE Some(span_collections[CHOOSE i \in R : \A j \in R : i <= j].span)

\* a collect that never takes the root-only path
root_is_short_never(duration_ns, duration) == FALSE

\* Collector::collect: the test that sends it down the root-only path
root_is_short(duration_ns, duration) == duration_ns < duration

\* Collector::collect after the drain: the list it returns
Collector_collect(span_collections, duration_threshold, parent_id_of_root_arg, anchor) ==
    LET parent_id_of_root == unwrap_or_default(parent_id_of_root_arg)
        scope_span == find_root(span_collections)
        root_span  == build_span(
                          [scope_span[1] EXCEPT !.parent_id = parent_id_of_root],
                          anchor)
    IN  IF /\ duration_threshold # None
           /\ scope_span # None
           /\ root_is_short(root_span.duration_ns, duration_threshold[1])
        THEN <<root_span>>
        ELSE remove_unfinished_and_spawn_spans(span_collections,
                 parent_id_of_root, anchor)

\* Collector::collect, the drain: receiver.iter() when need_sync, which ends
\* when every Sender is gone, receiver.try_iter() otherwise
Collector_collect_drain(need_sync, duration_threshold, parent_id_of_root) ==
    /\ collector.pc = "idle"
    /\ scope[1].st # "absent"
    /\ need_sync => ~SendersAlive
    /\ collector' = [collector EXCEPT
           !.pc = "drained",
           !.duration_threshold = duration_threshold,
           !.parent_id_of_root = parent_id_of_root,
           !.span_collections = receiver,
           !.quiescent = ~SendersAlive]
    /\ receiver' = <<>>
    /\ ret' = NoRet
    /\ UNCHANGED <<clock, guards, scope, LOCAL_SCOPE, SPAN_LINE, next_id, closed,
                   opened>>
    /\ UNCHANGED <<vars_I, vars_III, vars_IV, vars_V>>

\* a collect that returns without storing the closed flag
Collector_collect_no_store ==
    /\ collector.pc = "drained"
    /\ closed' = closed
    /\ collector' = [collector EXCEPT
           !.pc = "done",
           !.spans = Collector_collect(collector.span_collections,
                         collector.duration_threshold,
                         collector.parent_id_of_root, anchor_at(clock))]
    /\ clock' = clock + 1
    /\ ret' = NoRet
    /\ UNCHANGED <<guards, scope, LOCAL_SCOPE, SPAN_LINE, next_id, receiver,
                   opened>>
    /\ UNCHANGED <<vars_I, vars_III, vars_IV, vars_V>>

\* Collector::collect, from closed.store(true) to the return
Collector_collect_store ==
    /\ collector.pc = "drained"
    /\ closed' = TRUE
    /\ collector' = [collector EXCEPT
           !.pc = "done",
           !.spans = Collector_collect(collector.span_collections,
                         collector.duration_threshold,
                         collector.parent_id_of_root, anchor_at(clock))]
    /\ clock' = clock + 1
    /\ ret' = NoRet
    /\ UNCHANGED <<guards, scope, LOCAL_SCOPE, SPAN_LINE, next_id, receiver,
                   opened>>
    /\ UNCHANGED <<vars_I, vars_III, vars_IV, vars_V>>

NextCollect ==
    \/ \E e \in Events : Scope_root(e)
    \/ \E p \in Scopes, s \in Scopes, e \in Events : Scope_child(p, s, e)
    \/ \E s \in Scopes : Scope_drop(s)
    \/ \E t \in Workers, s \in Scopes : Scope_try_attach(t, s)
    \/ \E t \in Workers : LocalScopeGuard_drop(t)
    \/ \E t \in Workers, e \in Events : LocalSpanGuard_new(t, e)
    \/ \E t \in Workers : LocalSpanGuard_drop(t)
    \/ \E t \in Workers, s \in Scopes, e \in Events : LocalScope_new_child_scope(t, s, e)
    \/ \E n \in BOOLEAN, d \in Thresholds, p \in ParentIdsOfRoot :
           Collector_collect_drain(n, d, p)
    \/ Collector_collect_store

SpecCollect == Init /\ [][NextCollect]_vars

(***************************************************************************)
(* Collector::collect with the call and the end of its drain as separate   *)
(* steps: receiver.iter() blocks until every Sender is gone, try_iter()    *)
(* does not block.  Specification SpecCollectSync; the thread that called  *)
(* collect keeps running, so its steps are weakly fair, while nothing      *)
(* obliges the program to drop a scope or release a guard.                 *)
(***************************************************************************)
\* an iter() that returns what the channel holds without waiting
Collector_collect_iter_unblocked ==
    /\ collector.pc = "iter"
    /\ collector' = [collector EXCEPT
           !.pc = "drained",
           !.span_collections = receiver,
           !.quiescent = ~SendersAlive]
    /\ receiver' = <<>>
    /\ ret' = NoRet
    /\ UNCHANGED <<clock, guards, scope, LOCAL_SCOPE, SPAN_LINE, next_id, closed,
                   opened>>
    /\ UNCHANGED <<vars_I, vars_III, vars_IV, vars_V>>

\* Collector::collect is called: the arguments are taken
Collector_collect_call(need_sync, duration_threshold, parent_id_of_root) ==
    /\ collector.pc = "idle"
    /\ scope[1].st # "absent"
    /\ collector' = [collector EXCEPT
           !.pc = IF need_sync THEN "iter" ELSE "try_iter",
           !.duration_threshold = duration_threshold,
           !.parent_id_of_root = parent_id_of_root]
    /\ ret' = NoRet
    /\ UNCHANGED <<clock, guards, scope, LOCAL_SCOPE, SPAN_LINE, next_id, closed,
                   receiver, opened>>
    /\ UNCHANGED <<vars_I, vars_III, vars_IV, vars_V>>

\* self.receiver.iter().collect(): ends when the channel is disconnected
Collector_collect_iter ==
    /\ collector.pc = "iter"
    /\ ~SendersAlive
    /\ collector' = [collector EXCEPT
           !.pc = "drained",
           !.span_collections = receiver,
           !.quiescent = TRUE]
    /\ receiver' = <<>>
    /\ ret' = NoRet
    /\ UNCHANGED <<clock, guards, scope, LOCAL_SCOPE, SPAN_LINE, next_id, closed,
                   opened>>
    /\ UNCHANGED <<vars_I, vars_III, vars_IV, vars_V>>

\* self.receiver.try_iter().collect(): what the channel holds now
Collector_collect_try_iter ==
    /\ collector.pc = "try_iter"
    /\ collector' = [collector EXCEPT
           !.pc = "drained",
           !.span_collections = receiver,
           !.quiescent = ~SendersAlive]
    /\ receiver' = <<>>
    /\ ret' = NoRet
    /\ UNCHANGED <<clock, guards, scope, LOCAL_SCOPE, SPAN_LINE, next_id, closed,
                   opened>>
    /\ UNCHANGED <<vars_I, vars_III, vars_IV, vars_V>>

NextCollectSync ==
    \/ \E e \in Events : Scope_root(e)
    \/ \E p \in Scopes, s \in Scopes, e \in Events : Scope_child(p, s, e)
    \/ \E s \in Scopes : Scope_drop(s)
    \/ \E t \in Workers, s \in Scopes : Scope_try_attach(t, s)
    \/ \E t \in Workers : LocalScopeGuard_drop(t)
    \/ \E t \in Workers, s \in Scopes, e \in Events : LocalScope_new_child_scope(t, s, e)
    \/ \E n \in BOOLEAN, d \in Thresholds, p \in ParentIdsOfRoot :
           Collector_collect_call(n, d, p)
    \/ Collector_collect_iter
    \/ Collector_collect_try_iter
    \/ Collector_collect_store

SpecCollectSync ==
    /\ Init
    /\ [][NextCollectSync]_vars
    /\ WF_vars(Collector_collect_iter)
    /\ WF_vars(Collector_collect_try_iter)
    /\ WF_vars(Collector_collect_store)

(***************************************************************************)
(* Part III: src/trace_async.rs over crate::trace_local and                 *)
(* crate::collector::CollectorInner; specification SpecAsync.              *)
(***************************************************************************)
\* TraceLocal::next_id: the id handed out and the local left behind
trace_local_next_id(l) ==
    [id |-> l.id_prefix * ID_PREFIX_UNIT + l.id_suffix,
     tl |-> [l EXCEPT !.id_suffix = @ + 1]]

\* crate::trace_enable(event) on thread t: the root of the trace is opened
\* and its guard and the collector are handed to the caller
crate_trace_enable(t, event) ==
    LET l    == trace_local[t]
        a    == trace_local_next_id(l)
        root == [id |-> a.id, state |-> "Root", related_id |-> 0,
                 begin_cycles |-> clock, elapsed_cycles |-> 0, event |-> event]
    IN  /\ traced.root = "absent"
        /\ l.enter_stack = <<>>
        /\ trace_local' = [trace_local EXCEPT ![t] =
               [a.tl EXCEPT !.cur_collector = TRUE, !.enter_stack = <<a.id>>,
                            !.spans = <<root>>]]
        /\ guards' = [guards EXCEPT ![t] = Append(@,
               [kind |-> "RootGuard", span_index |-> 1, h |-> 0])]
        /\ traced' = [traced EXCEPT !.root = "live"]
        /\ clock' = clock + 1
        /\ ret' = NoRet
        /\ UNCHANGED <<trace_handle, queue, collector_closed, emitted>>
        /\ UNCHANGED <<vars_I, vars_II, vars_IV, vars_V>>

\* crate::trace_local::LocalTraceGuard::new on the local l: none when the
\* thread already has a trace or the collector is closed; otherwise the
\* leading span and the settle span are recorded and the settle span entered
trace_local_LocalTraceGuard_new(l, now_cycles, leading_span, settle_event) ==
    IF l.cur_collector \/ l.enter_stack # <<>> \/ collector_closed
    THEN [some |-> FALSE, tl |-> l, leading |-> leading_span]
    ELSE LET a       == trace_local_next_id(l)
             leading == [id |-> a.id, state |-> leading_span.state,
                         related_id |-> leading_span.related_id,
                         begin_cycles |-> leading_span.begin_cycles,
                         elapsed_cycles |-> leading_span.elapsed_cycles,
                         event |-> leading_span.event]
             b       == trace_local_next_id(a.tl)
             settle  == [id |-> b.id, state |-> "Settle", related_id |-> a.id,
                         begin_cycles |-> now_cycles, elapsed_cycles |-> 0,
                         event |-> settle_event]
         IN  [some |-> TRUE,
              tl |-> [b.tl EXCEPT !.cur_collector = TRUE,
                                  !.enter_stack = <<b.id>>,
                                  !.spans = <<leading, settle>>],
              leading |-> leading]

\* impl Drop for crate::trace_local::LocalTraceGuard on the local l: the
\* entered span ends, the spans go to collector.queue, the local is cleared
trace_local_LocalTraceGuard_drop(l, span_index, now_cycles) ==
    [span_set |-> [spans |-> [l.spans EXCEPT ![span_index].elapsed_cycles =
                                  wrapping_sub(now_cycles, l.spans[span_index].begin_cycles)]],
     tl |-> [l EXCEPT !.cur_collector = FALSE, !.enter_stack = <<>>,
                      !.spans = <<>>]]

\* the guard of the root is released on thread t
RootGuard_drop(t) ==
    /\ guards[t] # <<>>
    /\ Last(guards[t]).kind = "RootGuard"
    /\ LET d == trace_local_LocalTraceGuard_drop(trace_local[t],
                    Last(guards[t]).span_index, clock)
       IN  /\ trace_local' = [trace_local EXCEPT ![t] = d.tl]
           /\ queue' = IF collector_closed THEN queue ELSE Append(queue, d.span_set)
    /\ guards' = [guards EXCEPT ![t] = Front(@)]
    /\ traced' = [traced EXCEPT !.root = "dropped"]
    /\ clock' = clock + 1
    /\ ret' = NoRet
    /\ UNCHANGED <<trace_handle, collector_closed, emitted>>
    /\ UNCHANGED <<vars_I, vars_II, vars_IV, vars_V>>

\* a TraceHandle slot before TraceHandle::new fills it
NoTraceHandle ==
    [st |-> "absent", inner |-> FALSE, next_suspending_state |-> "Spawning",
     suspending_begin_cycles |-> 0, pending_event |-> 0, parent_id |-> 0,
     parent_begin_cycles |-> 0, parent_event |-> 0, parent_related_id |-> 0,
     parent_state |-> "Local"]

\* TraceHandle::new(parent_event, pending_event) on thread t, giving handle h
TraceHandle_new(t, h, parent_event, pending_event) ==
    LET tl == trace_local[t]
        a  == trace_local_next_id(tl)
    IN  /\ trace_handle[h].st = "absent"
        /\ \A g \in Handles : g < h => trace_handle[g].st # "absent"
        /\ IF ~tl.cur_collector \/ tl.enter_stack = <<>>
           THEN /\ trace_handle' = [trace_handle EXCEPT ![h] =
                       [NoTraceHandle EXCEPT !.st = "live"]]
                /\ UNCHANGED <<trace_local, clock>>
           ELSE /\ trace_handle' = [trace_handle EXCEPT ![h] =
                       [st |-> "live", inner |-> TRUE,
                        next_suspending_state |-> "Spawning",
                        suspending_begin_cycles |-> clock,
                        pending_event |-> pending_event,
                        parent_id |-> a.id,
                        parent_begin_cycles |-> clock,
                        parent_event |-> parent_event,
                        parent_related_id |-> Last(tl.enter_stack),
                        parent_state |-> "Local"]]
                /\ trace_local' = [trace_local EXCEPT ![t] = a.tl]
                /\ clock' = clock + 1
        /\ ret' = NoRet
        /\ UNCHANGED <<guards, queue, collector_closed, emitted, traced>>
        /\ UNCHANGED <<vars_I, vars_II, vars_IV>>

\* crate::new_span(event) on thread t at cycle now_cycles
crate_new_span(t, event, now_cycles) ==
    LET l    == trace_local[t]
        a    == trace_local_next_id(l)
        span == [id |-> a.id, state |-> "Local",
                 related_id |-> Last(l.enter_stack),
                 begin_cycles |-> now_cycles, elapsed_cycles |-> 0,
                 event |-> event]
    IN  IF l.enter_stack = <<>>
        THEN /\ ret' = Returned("trace_enable", t, FALSE)
             /\ UNCHANGED <<trace_local, guards, traced, clock>>
        ELSE /\ traced.local < MaxLocal
             /\ ret' = Returned("trace_enable", t, TRUE)
             /\ trace_local' = [trace_local EXCEPT ![t] =
                    [a.tl EXCEPT !.enter_stack = Append(@, a.id),
                                 !.spans = Append(@, span)]]
             /\ guards' = [guards EXCEPT ![t] = Append(@,
                    [kind |-> "LocalSpanGuard", span_index |-> Len(l.spans) + 1,
                     h |-> 0])]
             /\ traced' = [traced EXCEPT !.local = @ + 1]
             /\ clock' = now_cycles + 1

\* a trace_enable that leaves the handle's next suspending state as it was
trace_enable_next_suspending_state_kept(inner) == inner.next_suspending_state

\* TraceHandle::trace_enable: the state reserved for the next suspension
trace_enable_next_suspending_state(inner) == "Scheduling"

\* TraceHandle::trace_enable(event) of handle h, called on thread t
TraceHandle_trace_enable(t, h, settle_event) ==
    LET inner       == trace_handle[h]
        now_cycles  == clock
        local_guard == trace_local_LocalTraceGuard_new(trace_local[t], now_cycles,
                           [state |-> inner.next_suspending_state,
                            related_id |-> inner.parent_id,
                            begin_cycles |-> inner.suspending_begin_cycles,
                            elapsed_cycles |->
                                wrapping_sub(now_cycles, inner.suspending_begin_cycles),
                            event |-> inner.pending_event],
                           settle_event)
    IN  /\ inner.st = "live"
        /\ ~Borrowed(h)
        /\ UNCHANGED <<queue, collector_closed>>
        /\ UNCHANGED <<vars_I, vars_II, vars_IV>>
        /\ IF inner.inner
           THEN IF local_guard.some
                THEN /\ Len(emitted[h]) < MaxAttach
                     /\ trace_handle' = [trace_handle EXCEPT
                            ![h].next_suspending_state =
                                trace_enable_next_suspending_state(inner)]
                     /\ trace_local' = [trace_local EXCEPT ![t] = local_guard.tl]
                     /\ guards' = [guards EXCEPT ![t] = Append(@,
                            [kind |-> "LocalTraceGuard", span_index |-> 2, h |-> h])]
                     /\ emitted' = [emitted EXCEPT ![h] =
                            Append(@, local_guard.leading)]
                     /\ clock' = now_cycles + 1
                     /\ ret' = Returned("trace_enable", t, TRUE)
                     /\ UNCHANGED traced
                ELSE /\ crate_new_span(t, settle_event, now_cycles + 1)
                     /\ UNCHANGED <<trace_handle, emitted>>
           ELSE /\ crate_new_span(t, settle_event, now_cycles)
                /\ UNCHANGED <<trace_handle, emitted>>

\* impl Drop for LocalTraceGuard: the newest guard of thread t is one
LocalTraceGuard_drop(t) ==
    /\ guards[t] # <<>>
    /\ Last(guards[t]).kind = "LocalTraceGuard"
    /\ LET g == Last(guards[t])
           d == trace_local_LocalTraceGuard_drop(trace_local[t], g.span_index, clock)
       IN  /\ trace_local' = [trace_local EXCEPT ![t] = d.tl]
           /\ queue' = IF collector_closed THEN queue ELSE Append(queue, d.span_set)
           /\ trace_handle' = [trace_handle EXCEPT
                  ![g.h].suspending_begin_cycles = clock + 1]
    /\ guards' = [guards EXCEPT ![t] = Front(@)]
    /\ clock' = clock + 2
    /\ ret' = NoRet
    /\ UNCHANGED <<collector_closed, emitted, traced>>
    /\ UNCHANGED <<vars_I, vars_II, vars_IV>>

\* the newest guard of thread t, the guard of a plain span, is released
LocalSpanGuard_release(t) ==
    /\ guards[t] # <<>>
    /\ Last(guards[t]).kind = "LocalSpanGuard"
    /\ trace_local' = [trace_local EXCEPT ![t] =
           [@ EXCEPT !.enter_stack = Front(@),
                     !.spans[Last(guards[t]).span_index].elapsed_cycles =
                         wrapping_sub(clock,
                             trace_local[t].spans[Last(guards[t]).span_index].begin_cycles)]]
    /\ guards' = [guards EXCEPT ![t] = Front(@)]
    /\ clock' = clock + 1
    /\ ret' = NoRet
    /\ UNCHANGED <<trace_handle, queue, collector_closed, emitted, traced>>
    /\ UNCHANGED <<vars_I, vars_II, vars_IV>>

\* a drop of the handle that does not load the collector's closed flag
AsyncTraceInner_drop_unchecked(h) ==
    LET inner == trace_handle[h] IN
    /\ inner.st = "live"
    /\ ~Borrowed(h)
    /\ trace_handle' = [trace_handle EXCEPT ![h].st = "dropped"]
    /\ IF inner.inner
       THEN /\ queue' = Append(queue, [spans |-> <<
                   [id |-> inner.parent_id, state |-> inner.parent_state,
                    related_id |-> inner.parent_related_id,
                    begin_cycles |-> inner.parent_begin_cycles,
                    elapsed_cycles |-> wrapping_sub(clock, inner.parent_begin_cycles),
                    event |-> inner.parent_event]>>])
            /\ clock' = clock + 1
       ELSE UNCHANGED <<queue, clock>>
    /\ ret' = NoRet
    /\ UNCHANGED <<guards, trace_local, collector_closed, emitted, traced>>
    /\ UNCHANGED <<vars_I, vars_II, vars_IV>>

\* the TraceHandle h goes out of scope; impl Drop for AsyncTraceInner
AsyncTraceInner_drop(h) ==
    LET inner == trace_handle[h] IN
    /\ inner.st = "live"
    /\ ~Borrowed(h)
    /\ trace_handle' = [trace_handle EXCEPT ![h].st = "dropped"]
    /\ IF inner.inner /\ ~collector_closed
       THEN /\ queue' = Append(queue, [spans |-> <<
                   [id |-> inner.parent_id, state |-> inner.parent_state,
                    related_id |-> inner.parent_related_id,
                    begin_cycles |-> inner.parent_begin_cycles,
                    elapsed_cycles |-> wrapping_sub(clock, inner.parent_begin_cycles),
                    event |-> inner.parent_event]>>])
            /\ clock' = clock + 1
       ELSE UNCHANGED <<queue, clock>>
    /\ ret' = NoRet
    /\ UNCHANGED <<guards, trace_local, collector_closed, emitted, traced>>
    /\ UNCHANGED <<vars_I, vars_II, vars_IV>>

\* the collector of the trace is collected: it is closed and what the queue
\* holds is returned
CollectorInner_collect ==
    /\ traced.root # "absent"
    /\ ~collector_closed
    /\ collector_closed' = TRUE
    /\ traced' = [traced EXCEPT !.collected = queue]
    /\ queue' = <<>>
    /\ ret' = NoRet
    /\ UNCHANGED <<clock, guards, trace_local, trace_handle, emitted>>
    /\ UNCHANGED <<vars_I, vars_II, vars_IV, vars_V>>

NextAsync ==
    \/ \E t \in Threads, e \in Events : crate_trace_enable(t, e)
    \/ \E t \in Threads : RootGuard_drop(t)
    \/ \E t \in Threads, h \in Handles, e \in Events, p \in Events :
           TraceHandle_new(t, h, e, p) /\ UNCHANGED vars_V
    \/ \E t \in Threads, h \in Handles, e \in Events :
           TraceHandle_trace_enable(t, h, e) /\ UNCHANGED vars_V
    \/ \E t \in Threads : LocalTraceGuard_drop(t) /\ UNCHANGED vars_V
    \/ \E t \in Threads : LocalSpanGuard_release(t) /\ UNCHANGED vars_V
    \/ \E h \in Handles : AsyncTraceInner_drop(h) /\ UNCHANGED vars_V
    \/ CollectorInner_collect

SpecAsync == Init /\ [][NextAsync]_vars

(***************************************************************************)
(* Part V: src/future.rs, the future wrapped with a handle.  TraceSpawned, *)
(* TraceRootFuture and MayTraceRootFuture poll alike: trace_enable on the  *)
(* handle, the poll of the inner future, the drop of the guard and, in the *)
(* Ready arm, the drop of the handle taken out of its Option.  One future, *)
(* wrapped by trace_task on a thread; specification SpecPoll.              *)
(***************************************************************************)
MaxPolls == 3

PollResults == {"Pending", "Ready"}

\* a poll of the future is under way on thread t
InPoll(t) ==
    /\ future.pc \in {"entered", "polled", "take"}
    /\ future.t = t

\* a poll that takes the handle out whatever the inner future returned
poll_arm_always_take(r) == "take"

\* the arm of the match on the inner future's result, after drop(guard):
\* Ready takes the handle out and drops it, anything else returns
poll_arm(r) == IF r = "Ready" THEN "take" ELSE "return"

\* Instrument::trace_task(event) on thread t: the future is wrapped with the
\* handle h made by trace_binder_fine(event, event)
Instrument_trace_task(t, h, event) ==
    /\ future.pc = "unwrapped"
    /\ TraceHandle_new(t, h, event, event)
    /\ future' = [future EXCEPT !.pc = "created", !.h = h, !.event = event]

\* poll, its first statement: trace_handle.as_mut().unwrap().trace_enable(event)
TraceSpawned_poll_trace_enable(t) ==
    /\ future.pc \in {"created", "suspended"}
    /\ future.polls < MaxPolls
    /\ TraceHandle_trace_enable(t, future.h, future.event)
    /\ future' = [future EXCEPT
           !.pc = "entered", !.t = t,
           !.guard = IF ret'.some THEN Last(guards'[t]).kind ELSE "None",
           !.polls = @ + 1, !.enables = @ + 1]

\* poll, this.inner.poll(cx): the inner future returns r
TraceSpawned_poll_inner(r) ==
    /\ future.pc = "entered"
    /\ future' = [future EXCEPT !.pc = "polled", !.result = r]
    /\ ret' = NoRet
    /\ UNCHANGED <<clock, guards, vars_I, vars_II, vars_III, vars_IV>>

\* poll, drop(guard) in either arm; the Pending arm then returns
TraceSpawned_poll_drop_guard ==
    /\ future.pc = "polled"
    /\ CASE future.guard = "LocalTraceGuard" -> LocalTraceGuard_drop(future.t)
         [] future.guard = "LocalSpanGuard" -> LocalSpanGuard_release(future.t)
         [] OTHER -> /\ ret' = NoRet
                     /\ UNCHANGED <<clock, guards, vars_I, vars_II, vars_III, vars_IV>>
    /\ future' = [future EXCEPT
           !.pc = IF poll_arm(future.result) = "take" THEN "take" ELSE "suspended",
           !.guard = "", !.releases = @ + 1]

\* poll, drop(this.trace_handle.take()), after which the poll returns
TraceSpawned_poll_drop_handle ==
    /\ future.pc = "take"
    /\ AsyncTraceInner_drop(future.h)
    /\ future' = [future EXCEPT
           !.pc = IF future.result = "Ready" THEN "done" ELSE "suspended",
           !.drops = @ + 1]

NextPoll ==
    \/ \E t \in Threads, e \in Events : ~InPoll(t) /\ crate_trace_enable(t, e)
    \/ \E t \in Threads : ~InPoll(t) /\ RootGuard_drop(t)
    \/ \E t \in Threads, h \in Handles, e \in Events : Instrument_trace_task(t, h, e)
    \/ \E t \in Threads : TraceSpawned_poll_trace_enable(t)
    \/ \E r \in PollResults : TraceSpawned_poll_inner(r)
    \/ TraceSpawned_poll_drop_guard
    \/ TraceSpawned_poll_drop_handle
    \/ CollectorInner_collect

SpecPoll == Init /\ [][NextPoll]_vars

\* The operations that attach a trace to a thread, of Part I and of Part II,
\* with the spans recorded under them.
NextAttach ==
    \/ \E t \in Threads, i \in TraceIds, e \in Events : start_trace(t, i, e)
    \/ \E t \in Threads : ScopeGuard_drop(t)
    \/ \E e \in Events : Scope_root(e)
    \/ \E t \in Workers, s \in Scopes : Scope_try_attach(t, s)
    \/ \E t \in Workers : LocalScopeGuard_drop(t)
    \/ \E t \in Workers, e \in Events : LocalSpanGuard_new(t, e)
    \/ \E t \in Workers : LocalCollector_try_start(t)
    \/ \E t \in Workers : LocalCollector_drop(t)

SpecAttach == Init /\ [][NextAttach]_vars

(***************************************************************************)
(* Specification                                                           *)
(***************************************************************************)
Next ==
    \/ \E t \in Threads, i \in TraceIds, e \in Events : start_trace(t, i, e)
    \/ \E t \in Threads, e \in Events : new_span(t, e)
    \/ \E t \in Threads : SpanGuard_drop(t)
    \/ \E t \in Threads : ScopeGuard_drop(t)
    \/ \E t \in Threads, h \in Handles : new_async_handle(t, h)
    \/ \E t \in Threads, h \in Handles, e \in Events : AsyncHandle_start_trace(t, h, e)
    \/ \E t \in Threads : AsyncScopeGuard_drop(t)
    \/ \E h \in Handles : AsyncHandle_drop(h)
    \/ finish_store
    \/ finish_first_recv
    \/ finish_loop_recv

Spec == Init /\ [][Next]_vars

(***************************************************************************)
(* src/tests.rs, trace_async_basic: one root on the first thread, FanOut    *)
(* handles captured under it, each moved to a thread of its own and         *)
(* attached there once; collect is called after the wait group is released. *)
(* Specification SpecFanOut, over the actions of Part I.                    *)
(***************************************************************************)
ThreadNames == <<"t1", "t2", "t3", "t4">>
ThreadIndex(t) == CHOOSE i \in DOMAIN ThreadNames : ThreadNames[i] = t
FanOutRoot == ThreadNames[1]
FanOutHandles == 1..FanOut
FanOutThreads == {ThreadNames[i] : i \in 1..(FanOut + 1)}
\* the thread the handle h is moved to
FanOutWorker(h) == ThreadNames[h + 1]

\* every thread has touched TRACE_LOCAL once, in the order of ThreadNames
InitFanOut ==
    /\ clock = 1
    /\ ret = NoRet
    /\ guards = [t \in FanOutThreads |-> <<>>]
    /\ TRACE_LOCAL = [t \in FanOutThreads |->
           NewTraceLocal(GLOBAL_ID_FIRST + ThreadIndex(t) - 1)]
    /\ GLOBAL_ID_COUNTER = GLOBAL_ID_FIRST + Cardinality(FanOutThreads)
    /\ handle = [h \in FanOutHandles |-> NoHandle]
    /\ is_closed = FALSE
    /\ tx = <<>>
    /\ finisher = [pc |-> "idle", trace_id |-> 0, spans |-> <<>>,
                   properties |-> EmptyProperties]
    /\ allocated = [root |-> 0, local |-> 0, attach |-> 0]
    /\ late_ids = {}
    /\ history = [h \in FanOutHandles |-> [created_under |-> 0, attaches |-> <<>>]]
    /\ Init_II
    /\ Init_III
    /\ Init_IV
    /\ Init_V

\* new_async_handle() inside the root's block, h - 1 handles made before it
FanOut_new_async_handle(h) ==
    /\ TRACE_LOCAL[FanOutRoot].enter_stack # <<>>
    /\ \A g \in FanOutHandles : g < h => handle[g].st # "absent"
    /\ new_async_handle(FanOutRoot, h)

\* the spawned thread of handle h: handle.start_trace(event), once
FanOut_start_trace(h, event) ==
    /\ history[h].attaches = <<>>
    /\ AsyncHandle_start_trace(FanOutWorker(h), h, event)

\* wg.wait() has returned: every spawned thread has attached its handle and
\* released the guard, and the block holding the root guard has ended
FanOut_wait_done ==
    /\ allocated.root > 0
    /\ \A t \in FanOutThreads : guards[t] = <<>>
    /\ \A h \in FanOutHandles : history[h].attaches # <<>>

\* collector.collect() after wg.wait()
FanOut_collect ==
    /\ FanOut_wait_done
    /\ finish_store

NextFanOut ==
    \/ \E i \in TraceIds, e \in Events : start_trace(FanOutRoot, i, e)
    \/ ScopeGuard_drop(FanOutRoot)
    \/ \E h \in FanOutHandles : FanOut_new_async_handle(h)
    \/ \E h \in FanOutHandles, e \in Events : FanOut_start_trace(h, e)
    \/ \E h \in FanOutHandles : AsyncScopeGuard_drop(FanOutWorker(h))
    \/ \E h \in FanOutHandles : AsyncHandle_drop(h)
    \/ FanOut_collect
    \/ finish_first_recv
    \/ finish_loop_recv

SpecFanOut == InitFanOut /\ [][NextFanOut]_vars

(***************************************************************************)
(* src/tests.rs, trace_wide_function and trace_deep_function: one root on   *)
(* one thread and up to MaxNest plain spans under it, opened one after      *)
(* another or one inside another; collect is called after the root's block. *)
(* Specification SpecNest, over the actions of Part I.                      *)
(***************************************************************************)
NestThread == "t1"

\* crate::new_span(i) of the loop or of the recursion
Nest_new_span(event) == new_span_within(NestThread, event, MaxNest)

\* collector.collect() after the block of the root guard
Nest_collect ==
    /\ allocated.root > 0
    /\ guards[NestThread] = <<>>
    /\ finish_store

NextNest ==
    \/ \E i \in TraceIds, e \in Events : start_trace(NestThread, i, e)
    \/ \E e \in Events : Nest_new_span(e)
    \/ SpanGuard_drop(NestThread)
    \/ ScopeGuard_drop(NestThread)
    \/ Nest_collect
    \/ finish_first_recv
    \/ finish_loop_recv

SpecNest == Init /\ [][NextNest]_vars

(***************************************************************************)
(* src/tests.rs, test_property_sync and trace_not_enable: a root on the     *)
(* first thread with plain spans and properties under it, and the same      *)
(* calls on a thread that never has a trace.                                *)
(* Specification SpecProps, over the actions of Part I.                     *)
(***************************************************************************)
PropsRoot == "t1"

NextProps ==
    \/ \E i \in TraceIds, e \in Events : start_trace(PropsRoot, i, e)
    \/ \E t \in Threads, e \in Events : new_span(t, e)
    \/ \E t \in Threads, p \in Payloads : new_property(t, p)
    \/ SpanGuard_drop(PropsRoot)
    \/ ScopeGuard_drop(PropsRoot)
    \/ finish_store
    \/ finish_first_recv
    \/ finish_loop_recv

SpecProps == Init /\ [][NextProps]_vars

(***************************************************************************)
(* src/tests.rs, test_property_async and check_clear: a root on the first   *)
(* thread, a handle captured there and attached once on the second, plain   *)
(* spans and properties on both threads.                                    *)
(* Specification SpecRecord, over the actions of Part I.                    *)
(***************************************************************************)
RecordRoot == "t1"
RecordWorker == "t2"

\* the spawned thread: handle.start_trace(event), once
Record_start_trace(h, event) ==
    /\ history[h].attaches = <<>>
    /\ AsyncHandle_start_trace(RecordWorker, h, event)

NextRecord ==
    \/ \E i \in TraceIds, e \in Events : start_trace(RecordRoot, i, e)
    \/ \E t \in Threads, e \in Events : new_span(t, e)
    \/ \E t \in Threads, p \in Payloads : new_property(t, p)
    \/ \E t \in Threads : SpanGuard_drop(t)
    \/ ScopeGuard_drop(RecordRoot)
    \/ \E h \in Handles : new_async_handle(RecordRoot, h)
    \/ \E h \in Handles, e \in Events : Record_start_trace(h, e)
    \/ AsyncScopeGuard_drop(RecordWorker)
    \/ \E h \in Handles : AsyncHandle_drop(h)
    \/ finish_store
    \/ finish_first_recv
    \/ finish_loop_recv

SpecRecord == Init /\ [][NextRecord]_vars

(***************************************************************************)
(* Span ids late in the life of a process (src/trace.rs, new_span_id and   *)
(* next_global_id_prefix).  The first thread holds the first prefix and    *)
(* has opened no span yet; the second thread holds the second prefix with  *)
(* its suffix fresh or on its last value; the global counter is where it   *)
(* stood after the two threads drew, or where the draws of further threads *)
(* have brought it: on 0 after 65535 draws, on 1 after 65536.              *)
(* Specification SpecIds, over the actions of Part I.                      *)
(***************************************************************************)
IdCounters == {GLOBAL_ID_FIRST + Cardinality(Threads), 0, 1}
IdSuffixes == {0, U16_MAX}

InitIds ==
    /\ clock = 1
    /\ ret = NoRet
    /\ guards = [t \in Threads |-> <<>>]
    /\ \E s \in IdSuffixes :
         TRACE_LOCAL = [t \in Threads |->
             IF t = "t1" THEN NewTraceLocal(ThreadPrefix(t))
             ELSE [NewTraceLocal(ThreadPrefix(t)) EXCEPT !.id_suffix = s]]
    /\ GLOBAL_ID_COUNTER \in IdCounters
    /\ handle = [h \in Handles |-> NoHandle]
    /\ is_closed = FALSE
    /\ tx = <<>>
    /\ finisher = [pc |-> "idle", trace_id |-> 0, spans |-> <<>>,
                   properties |-> EmptyProperties]
    /\ allocated = [root |-> 0, local |-> 0, attach |-> 0]
    /\ late_ids = {}
    /\ history = [h \in Handles |-> [created_under |-> 0, attaches |-> <<>>]]
    /\ Init_II
    /\ Init_III
    /\ Init_IV
    /\ Init_V

SpecIds == InitIds /\ [][Next]_vars

(***************************************************************************)
(* One trace with plain spans side by side and nested, and one handle:     *)
(* the root on the first thread, plain spans on both threads (event of     *)
(* Events), the handle captured on the first thread and started, with the  *)
(* event HandleEvent, once on a thread without a trace and possibly on a   *)
(* thread that has one.  Specification SpecSiblings, over Part I.          *)
(***************************************************************************)
SiblingRoot == "t1"

\* handle.start_trace(HandleEvent) on thread t: the one attach, or a span on
\* a thread that has a trace
Sibling_start_trace(t, h) ==
    /\ history[h].attaches = <<>>
    /\ IF handle[h].inner /\ TRACE_LOCAL[t].enter_stack # <<>>
       THEN /\ handle[h].st = "live"
            /\ ~Borrowed(h)
            /\ UNCHANGED <<vars_II, vars_III, vars_IV, vars_V>>
            /\ AsyncHandle_new_span_within(t, h, HandleEvent, MaxSiblings)
       ELSE AsyncHandle_start_trace(t, h, HandleEvent)

NextSiblings ==
    \/ \E i \in TraceIds, e \in Events : start_trace(SiblingRoot, i, e)
    \/ \E t \in Threads, e \in Events : new_span_within(t, e, MaxSiblings)
    \/ \E t \in Threads : SpanGuard_drop(t)
    \/ ScopeGuard_drop(SiblingRoot)
    \/ \E h \in Handles : new_async_handle(SiblingRoot, h)
    \/ \E t \in Threads, h \in Handles : Sibling_start_trace(t, h)
    \/ \E t \in Threads : AsyncScopeGuard_drop(t)
    \/ finish_store
    \/ finish_first_recv
    \/ finish_loop_recv

SpecSiblings == Init /\ [][NextSiblings]_vars

(***************************************************************************)
(* Guards released in any order, in a build without debug assertions: the  *)
(* debug_assert_eq of SpanGuardInner::exit is compiled out, and what is    *)
(* left of exit pops the stack and writes through span_index.  A panic     *)
(* (index out of bounds, unwrap of None) ends the thread.  Specification   *)
(* SpecUnordered, over Part I.                                             *)
(***************************************************************************)
UnorderedThread == "t1"

Panicked == ret.op = "panic"

RemoveAt(s, k) == SubSeq(s, 1, k - 1) \o SubSeq(s, k + 1, Len(s))

\* whether the span of the guard g is on top of the stack of l
OnTop(g, l) ==
    /\ l.enter_stack # <<>>
    /\ g.span_index \in DOMAIN l.spans
    /\ Last(l.enter_stack) = l.spans[g.span_index].id

\* drop of the k-th guard of thread t, wherever it stands among the guards
Guard_release(t, k) ==
    LET g      == guards[t][k]
        l      == TRACE_LOCAL[t]
        popped == [l EXCEPT !.enter_stack = IF @ = <<>> THEN @ ELSE Front(@)]
    IN
    /\ k \in DOMAIN guards[t]
    /\ g.h = 0
    /\ guards' = [guards EXCEPT ![t] = RemoveAt(@, k)]
    /\ clock' = clock + 1
    /\ IF g.span_index \notin DOMAIN l.spans
       THEN \* tl.spans[self.span_index]: index out of bounds, after the pop
            /\ TRACE_LOCAL' = [TRACE_LOCAL EXCEPT ![t] = popped]
            /\ ret' = Returned("panic", t, FALSE)
            /\ UNCHANGED <<tx, late_ids>>
       ELSE LET l1 == SpanGuardInner_exit(g.span_index, l, clock)
                l2 == take_spans_and_properties(l1)
            IN  IF g.kind = "SpanGuard"
                THEN /\ TRACE_LOCAL' = [TRACE_LOCAL EXCEPT ![t] = l1]
                     /\ ret' = Returned("release", t, OnTop(g, l))
                     /\ UNCHANGED <<tx, late_ids>>
                ELSE IF ~l1.collector
                THEN \* tl.collector.take().unwrap() on None
                     /\ TRACE_LOCAL' = [TRACE_LOCAL EXCEPT ![t] = l2]
                     /\ ret' = Returned("panic", t, FALSE)
                     /\ UNCHANGED <<tx, late_ids>>
                ELSE /\ collect_span_set([trace_id |-> l1.trace_id,
                                          spans |-> l1.spans,
                                          properties |-> l1.properties])
                     /\ TRACE_LOCAL' = [TRACE_LOCAL EXCEPT ![t] =
                            [l2 EXCEPT !.collector = FALSE, !.trace_id = 0]]
                     /\ ret' = Returned("release", t, OnTop(g, l))
    /\ UNCHANGED <<vars_II, vars_III, vars_IV, vars_V>>
    /\ UNCHANGED <<GLOBAL_ID_COUNTER, handle, is_closed, finisher, allocated, history>>

\* the steps of the thread and of the finisher, while the thread has not panicked
Unordered_start_trace ==
    /\ ~Panicked
    /\ \E i \in TraceIds, e \in Events : start_trace(UnorderedThread, i, e)

Unordered_new_span ==
    /\ ~Panicked
    /\ \E e \in Events : new_span_within(UnorderedThread, e, MaxSiblings)

Unordered_release ==
    /\ ~Panicked
    /\ \E k \in 1..(MaxSiblings + 1) : Guard_release(UnorderedThread, k)

Unordered_finish ==
    /\ ~Panicked
    /\ (finish_store \/ finish_first_recv \/ finish_loop_recv)

NextUnordered ==
    \/ Unordered_start_trace
    \/ Unordered_new_span
    \/ Unordered_release
    \/ Unordered_finish

SpecUnordered == Init /\ [][NextUnordered]_vars

(***************************************************************************)
(* Part IV: src/trace/scope.rs over several traces.  Every Scope::root     *)
(* makes a channel, a closed flag and an Acquirer of its own; Scope::merge *)
(* makes one scope under parents of different traces.  Specification       *)
(* SpecMerge.                                                              *)
(***************************************************************************)
\* the lowest slot not yet used
FreshMergeSlot(s) ==
    /\ merge_scope[s].st = "absent"
    /\ \A q \in MergeSlots : q < s => merge_scope[q].st # "absent"

\* a Scope::new that keeps a span for every Acquirer, shut down or not
Scope_new_of_unchecked(acquirers, event, scope_id, now) ==
    LET to_report == [i \in DOMAIN acquirers |->
                         [span |-> begin_with(scope_id, acquirers[i].parent_scope_id,
                                              now, event),
                          acq |-> acquirers[i].acq]]
    IN  IF to_report = <<>>
        THEN [st |-> "live", inner |-> FALSE, scope_id |-> 0, to_report |-> <<>>]
        ELSE [st |-> "live", inner |-> TRUE, scope_id |-> scope_id,
              to_report |-> to_report]

\* Scope::new; acquirers lists (parent_scope_id, Acquirer) pairs, and a pair
\* whose Acquirer is shut down is passed over
Scope_new_of(acquirers, event, scope_id, now) ==
    LET open == SelectSeq(acquirers, LAMBDA a : ~acquirer[a.acq].closed)
        to_report == [i \in DOMAIN open |->
                         [span |-> begin_with(scope_id, open[i].parent_scope_id,
                                              now, event),
                          acq |-> open[i].acq]]
    IN  IF to_report = <<>>
        THEN [st |-> "live", inner |-> FALSE, scope_id |-> 0, to_report |-> <<>>]
        ELSE [st |-> "live", inner |-> TRUE, scope_id |-> scope_id,
              to_report |-> to_report]

\* a Scope::merge that takes one Acquirer from each parent scope
RECURSIVE merge_pairs_one_each(_)
merge_pairs_one_each(scopes) ==
    IF scopes = <<>> THEN <<>>
    ELSE (IF Head(scopes).inner
          THEN <<[parent_scope_id |-> Head(scopes).scope_id,
                  acq |-> Head(scopes).to_report[1].acq]>>
          ELSE <<>>) \o merge_pairs_one_each(Tail(scopes))

\* Scope::merge, the iterator it hands to Scope::new: for every scope that has
\* an inner, its scope id paired with the Acquirer of each of its entries
RECURSIVE merge_pairs(_)
merge_pairs(scopes) ==
    IF scopes = <<>> THEN <<>>
    ELSE (IF Head(scopes).inner
          THEN [i \in DOMAIN Head(scopes).to_report |->
                   [parent_scope_id |-> Head(scopes).scope_id,
                    acq |-> Head(scopes).to_report[i].acq]]
          ELSE <<>>) \o merge_pairs(Tail(scopes))

\* Scope::root for the trace c, the scope going to slot s
Merge_root(c, s, event) ==
    /\ ~acquirer[c].made
    /\ FreshMergeSlot(s)
    /\ acquirer' = [acquirer EXCEPT ![c].made = TRUE]
    /\ merge_scope' = [merge_scope EXCEPT ![s] =
           [from |-> <<>>] @@
           Scope_new_of(<<[parent_scope_id |-> 0, acq |-> c]>>, event,
                        merge_next_id, clock)]
    /\ merge_next_id' = merge_next_id + 1
    /\ clock' = clock + 1
    /\ ret' = NoRet
    /\ UNCHANGED <<guards, vars_I, vars_II, vars_III, vars_V>>

\* Scope::empty, the scope going to slot s
Scope_empty(s) ==
    /\ FreshMergeSlot(s)
    /\ merge_scope' = [merge_scope EXCEPT ![s] =
           [st |-> "live", inner |-> FALSE, scope_id |-> 0, to_report |-> <<>>,
            from |-> <<>>]]
    /\ ret' = NoRet
    /\ UNCHANGED <<clock, guards, acquirer, merge_next_id, vars_I, vars_II, vars_III, vars_V>>

\* Scope::merge over the scopes in the slots parents (Scope::child when there
\* is one), the new scope going to slot s
Scope_merge(parents, s, event) ==
    /\ \A i \in DOMAIN parents : merge_scope[parents[i]].st = "live"
    /\ FreshMergeSlot(s)
    /\ merge_scope' = [merge_scope EXCEPT ![s] =
           [from |-> parents] @@
           Scope_new_of(merge_pairs([i \in DOMAIN parents |-> merge_scope[parents[i]]]),
                        event, merge_next_id, clock)]
    /\ merge_next_id' = merge_next_id + 1
    /\ clock' = clock + 1
    /\ ret' = NoRet
    /\ UNCHANGED <<guards, acquirer, vars_I, vars_II, vars_III, vars_V>>

\* Acquirer::submit of each span of to_report, ended at now, through its own
\* Acquirer: a no-op on an Acquirer that is closed
RECURSIVE submit_each(_, _, _)
submit_each(acqs, to_report, now) ==
    IF to_report = <<>> THEN acqs
    ELSE LET e  == Head(to_report)
             sc == ScopeSpan(end_with(e.span, now))
         IN  submit_each(
                 [acqs EXCEPT ![e.acq].calls = Append(@, sc),
                              ![e.acq].receiver =
                                  IF acqs[e.acq].closed THEN @ ELSE Append(@, sc)],
                 Tail(to_report), now)

\* the Scope in slot s goes out of scope; impl Drop for ScopeInner
Merge_drop(s) ==
    /\ merge_scope[s].st = "live"
    /\ acquirer' = submit_each(acquirer, merge_scope[s].to_report, clock)
    /\ clock' = IF merge_scope[s].inner THEN clock + 1 ELSE clock
    /\ merge_scope' = [merge_scope EXCEPT ![s].st = "dropped", ![s].inner = FALSE,
                                          ![s].to_report = <<>>]
    /\ ret' = NoRet
    /\ UNCHANGED <<guards, merge_next_id, vars_I, vars_II, vars_III, vars_V>>

\* Collector::collect of the trace c, as the scopes see it: closed.store(true)
Merge_collect(c) ==
    /\ acquirer[c].made
    /\ ~acquirer[c].closed
    /\ acquirer' = [acquirer EXCEPT ![c].closed = TRUE]
    /\ ret' = NoRet
    /\ UNCHANGED <<clock, guards, merge_scope, merge_next_id, vars_I, vars_II, vars_III, vars_V>>

\* the lists of parents a caller hands to Scope::merge
MergeParents == {<<p>> : p \in MergeSlots} \cup {<<p, q>> : p, q \in MergeSlots}

NextMerge ==
    \/ \E c \in MergeTraces, s \in MergeSlots, e \in Events : Merge_root(c, s, e)
    \/ \E s \in MergeSlots : Scope_empty(s)
    \/ \E P \in MergeParents, s \in MergeSlots, e \in Events : Scope_merge(P, s, e)
    \/ \E s \in MergeSlots : Merge_drop(s)
    \/ \E c \in MergeTraces : Merge_collect(c)

SpecMerge == Init /\ [][NextMerge]_vars

(***************************************************************************)
(* Properties of Part I                                                    *)
(***************************************************************************)
RECURSIVE FlattenSpans(_)
FlattenSpans(sets) ==
    IF sets = <<>> THEN <<>> ELSE Head(sets).spans \o FlattenSpans(Tail(sets))

\* the spans sent to the collector and not yet received by finish
SubmittedSpans == FlattenSpans(tx)

\* every sequence of spans the program holds
SpanSeqs ==
    {TRACE_LOCAL[t].spans : t \in Threads}
        \cup {tx[i].spans : i \in DOMAIN tx} \cup {finisher.spans}

AllSpans == UNION {SeqToSet(S) : S \in SpanSeqs}

PendingIds(h) ==
    {history[h].attaches[k].pending.id : k \in DOMAIN history[h].attaches}
SettleIds(h) ==
    {history[h].attaches[k].settle.id : k \in DOMAIN history[h].attaches}

Count(S, P(_)) == Cardinality({i \in DOMAIN S : P(S[i])})

\* C1: once finish has set is_closed, a span set that a producer sends
\* afterwards (a guard released late) adds no span to what finish returns.
C1_LateSubmissionLeftOut ==
    finisher.pc = "done" =>
        \A i \in DOMAIN finisher.spans : finisher.spans[i].id \notin late_ids

\* C7: a handle created under a trace, attached N times with new_scope and
\* then dropped, its collector never closed: the spans sent hold exactly N
\* Pending spans and N entered spans of the handle, each entered span under
\* its own Pending span, and at most one span for the handle's parent.
C7_AttachPairs ==
    \A h \in Handles :
        (handle[h].st = "dropped" /\ history[h].created_under # 0
            /\ finisher.pc = "idle")
        => LET T == SubmittedSpans
               A == history[h].attaches
               N == Len(A)
               IsPending(sp) == sp.state = "Pending" /\ sp.id \in PendingIds(h)
               IsSettle(sp) == sp.state = "Normal" /\ sp.parent_id \in PendingIds(h)
               IsParent(sp) == sp.id = history[h].created_under
           IN  /\ Count(T, IsPending) = N
               /\ Count(T, IsSettle) = N
               /\ Cardinality(PendingIds(h)) = N
               /\ Cardinality(SettleIds(h)) = N
               /\ \A k \in 1..N :
                     /\ Count(T, LAMBDA sp : sp.id = A[k].pending.id) = 1
                     /\ Count(T, LAMBDA sp : sp.id = A[k].settle.id
                                    /\ sp.parent_id = A[k].pending.id) = 1
                     /\ Count(T, LAMBDA sp : sp.parent_id = A[k].pending.id) = 1
               /\ Count(T, IsParent) <= 1

C7_Witness ==
    \E h \in Handles :
        /\ handle[h].st = "dropped"
        /\ finisher.pc = "idle"
        /\ Len(history[h].attaches) = 2
        /\ Count(SubmittedSpans, LAMBDA sp : sp.state = "Pending") = 2

\* C8: in every span sequence a Pending span is followed by the span the
\* same new_scope entered, and the Pending span ends (begin + elapsed) at
\* the cycle at which that span begins.
C8_PendingEndsWhereSettleBegins ==
    \A S \in SpanSeqs : \A i \in DOMAIN S :
        S[i].state = "Pending" =>
            /\ i < Len(S)
            /\ S[i + 1].parent_id = S[i].id
            /\ (S[i].begin_cycles + S[i].elapsed_cycles) % CycleWrap
                   = S[i + 1].begin_cycles

C8_Witness ==
    \E i \in DOMAIN SubmittedSpans :
        /\ SubmittedSpans[i].state = "Pending"
        /\ SubmittedSpans[i].elapsed_cycles > 1
        /\ Len(history[1].attaches) = 2

C11_BusyThreadPlainSpan ==
    /\ [](\A t \in Threads : \A i \in DOMAIN guards[t] :
            (guards[t][i].kind = "SpanGuard" /\ guards[t][i].h # 0)
            => /\ guards[t][i].span_index \in DOMAIN TRACE_LOCAL[t].spans
               /\ TRACE_LOCAL[t].spans[guards[t][i].span_index].state = "Normal"
               /\ TRACE_LOCAL[t].collector)
    /\ [][\A t \in Threads :
            (/\ ret'.op = "AsyncHandle_start_trace" /\ ret'.t = t
             /\ TRACE_LOCAL[t].enter_stack # <<>>
             /\ \A h \in Handles : handle[h].st = "live" => handle[h].inner)
            => LET l  == TRACE_LOCAL[t]
                   l2 == TRACE_LOCAL'[t]
               IN  /\ ret'.some
                   /\ Len(l2.spans) = Len(l.spans) + 1
                   /\ SubSeq(l2.spans, 1, Len(l.spans)) = l.spans
                   /\ Last(l2.spans).state = "Normal"
                   /\ Last(l2.spans).parent_id = Last(l.enter_stack)
                   /\ l2.enter_stack = Append(l.enter_stack, Last(l2.spans).id)
                   /\ l2.trace_id = l.trace_id
                   /\ l2.collector = l.collector
                   /\ l2.properties = l.properties
                   /\ tx' = tx
                   /\ history' = history
                   /\ \A h \in Handles : handle'[h].collector = handle[h].collector
                   /\ Last(guards'[t]).kind = "SpanGuard"
       ]_vars

C11_Witness ==
    \E t \in Threads :
        /\ ret = Returned("AsyncHandle_start_trace", t, TRUE)
        /\ Len(TRACE_LOCAL[t].enter_stack) = 2
        /\ Last(guards[t]).kind = "SpanGuard"
        /\ Last(guards[t]).h # 0
        /\ Last(TRACE_LOCAL[t].spans).parent_id = TRACE_LOCAL[t].enter_stack[1]

C14_FanOutSpans ==
    finisher.pc = "done"
    => LET S    == finisher.spans
           Root == {i \in DOMAIN S : S[i].parent_id = 0}
           Pend == {i \in DOMAIN S : S[i].state = "Pending"}
           Sett == {i \in DOMAIN S : S[i].state = "Normal" /\ S[i].parent_id # 0}
       IN  /\ Len(S) = 2 * FanOut + 1
           /\ \A i, j \in DOMAIN S : S[i].id = S[j].id => i = j
           /\ Cardinality(Root) = 1
           /\ Cardinality(Pend) = FanOut
           /\ Cardinality(Sett) = FanOut
           /\ \A r \in Root : S[r].state = "Normal" /\ \A p \in Pend : S[p].parent_id = S[r].id
           /\ \A h \in FanOutHandles :
                \E p \in Pend, s \in Sett :
                    /\ S[p].id = history[h].attaches[1].pending.id
                    /\ S[s].id = history[h].attaches[1].settle.id
                    /\ S[s].parent_id = S[p].id
                    /\ S[p].id \div ID_PREFIX_UNIT = GLOBAL_ID_FIRST + ThreadIndex(FanOutWorker(h)) - 1
                    /\ S[s].id \div ID_PREFIX_UNIT = S[p].id \div ID_PREFIX_UNIT

C14_Witness ==
    /\ finisher.pc = "done"
    /\ Len(finisher.spans) = 2 * FanOut + 1
    /\ \A h \in FanOutHandles : handle[h].inner /\ Len(history[h].attaches) = 1
    /\ finisher.spans[1].parent_id # 0

\* the span s was closed before the span u was opened
ClosedBefore(s, u) ==
    s.elapsed_cycles # 0 /\ s.begin_cycles + s.elapsed_cycles <= u.begin_cycles
\* the span u was opened while the span s was open, and closed before it
OpenedInside(s, u) ==
    /\ s.begin_cycles < u.begin_cycles
    /\ u.begin_cycles + u.elapsed_cycles < s.begin_cycles + s.elapsed_cycles

\* C15: a span opened with new_span records as parent the id on top of the
\* thread's stack at that moment, and the root records parent 0.  Hence the
\* spans open on a thread form one chain down to the root; in the collected
\* trace of one root and N plain spans there are N + 1 spans; when the N
\* spans were opened and closed one after another each has the root as
\* parent, and when each was opened inside the one before they form a single
\* chain that ends at the root.
C15_ParentIsStackTop ==
    /\ [][\A t \in Threads :
            /\ (ret' = Returned("new_span", t, TRUE))
               => /\ Len(TRACE_LOCAL'[t].spans) = Len(TRACE_LOCAL[t].spans) + 1
                  /\ Last(TRACE_LOCAL'[t].spans).parent_id = Last(TRACE_LOCAL[t].enter_stack)
            /\ (ret' = Returned("start_trace", t, TRUE))
               => Last(TRACE_LOCAL'[t].spans).parent_id = 0
       ]_vars
    /\ [](finisher.pc = "done"
          => LET S == finisher.spans
                 N == allocated.local
             IN  /\ Len(S) = N + 1
                 /\ S[1].parent_id = 0
                 /\ (\A i, j \in 2..Len(S) : i < j => ClosedBefore(S[i], S[j]))
                    => \A i \in 2..Len(S) : S[i].parent_id = S[1].id
                 /\ (\A i \in 2..Len(S) : OpenedInside(S[i - 1], S[i]))
                    => \A i \in 2..Len(S) : S[i].parent_id = S[i - 1].id)

\* three spans side by side under the root have been collected
C15_Witness ==
    /\ finisher.pc = "done"
    /\ Len(finisher.spans) = 4
    /\ \A i, j \in 2..4 : i < j => ClosedBefore(finisher.spans[i], finisher.spans[j])
    /\ \A i \in 2..4 : finisher.spans[i].parent_id = finisher.spans[1].id

\* three spans one inside another under the root have been collected
C15_WitnessDeep ==
    /\ finisher.pc = "done"
    /\ Len(finisher.spans) = 4
    /\ \A i \in 2..4 : OpenedInside(finisher.spans[i - 1], finisher.spans[i])
    /\ \A i \in 2..4 : finisher.spans[i].parent_id = finisher.spans[i - 1].id

RECURSIVE SumSeq(_)
SumSeq(s) == IF s = <<>> THEN 0 ELSE Head(s) + SumSeq(Tail(s))

\* every Properties value the program holds
PropertiesHeldValues ==
    {TRACE_LOCAL[t].properties : t \in DOMAIN TRACE_LOCAL}
        \cup {tx[i].properties : i \in DOMAIN tx} \cup {finisher.properties}

\* C16: new_property on a thread with a trace appends exactly one entry: its
\* span id is the id on top of the thread's stack and its length the number of
\* bytes given, an empty payload included; the entries and bytes recorded
\* before stay in front, in call order, so the lengths always add up to the
\* payload.  After a nested span is closed the stack top is the enclosing
\* span, which later properties name.
C16_PropertyAppended ==
    /\ [][\A t \in Threads :
            (ret' = Returned("new_property", t, TRUE))
            => LET p == TRACE_LOCAL[t].properties
                   q == TRACE_LOCAL'[t].properties
               IN  /\ q.span_ids = Append(p.span_ids, Last(TRACE_LOCAL[t].enter_stack))
                   /\ Len(q.property_lens) = Len(p.property_lens) + 1
                   /\ SubSeq(q.property_lens, 1, Len(p.property_lens)) = p.property_lens
                   /\ Last(q.property_lens) = Len(q.payload) - Len(p.payload)
                   /\ SubSeq(q.payload, 1, Len(p.payload)) = p.payload
                   /\ TRACE_LOCAL'[t].spans = TRACE_LOCAL[t].spans
                   /\ TRACE_LOCAL'[t].enter_stack = TRACE_LOCAL[t].enter_stack
       ]_vars
    /\ [](\A p \in PropertiesHeldValues :
            /\ Len(p.span_ids) = Len(p.property_lens)
            /\ SumSeq(p.property_lens) = Len(p.payload))

\* an empty property under a nested span, then, the nested span closed, a
\* two-byte property that names the root
C16_Witness ==
    \E t \in Threads :
        LET l == TRACE_LOCAL[t] IN
        /\ Len(l.spans) = 2
        /\ l.spans[2].elapsed_cycles # 0
        /\ l.enter_stack = <<l.spans[1].id>>
        /\ l.properties.span_ids = <<l.spans[2].id, l.spans[1].id>>
        /\ l.properties.property_lens = <<0, 2>>
        /\ l.properties.payload = <<8, 9>>

\* C17: new_span and new_property on a thread with no active trace return
\* nothing and change nothing: the thread's stack, span vector, property
\* arrays and collector slot stay as they were, which is empty, no id is
\* taken from the thread or from the global counter, no guard is made and
\* nothing is sent.
C17_NoTraceNoEffect ==
    /\ [][\A t \in Threads :
            (/\ ret'.op \in {"new_span", "new_property"}
             /\ ret'.t = t
             /\ TRACE_LOCAL[t].enter_stack = <<>>)
            => /\ ~ret'.some
               /\ TRACE_LOCAL' = TRACE_LOCAL
               /\ GLOBAL_ID_COUNTER' = GLOBAL_ID_COUNTER
               /\ guards' = guards
               /\ tx' = tx
               /\ clock' = clock
       ]_vars
    /\ [](\A t \in Threads :
            TRACE_LOCAL[t].enter_stack = <<>>
            => /\ TRACE_LOCAL[t].spans = <<>>
               /\ TRACE_LOCAL[t].properties = EmptyProperties
               /\ ~TRACE_LOCAL[t].collector
               /\ guards[t] = <<>>)

\* a thread that never had a trace has called new_property while the other
\* thread was recording
C17_Witness ==
    \E t, u \in Threads :
        /\ ret = Returned("new_property", t, FALSE)
        /\ TRACE_LOCAL[t] = NewTraceLocal(ThreadPrefix(t))
        /\ TRACE_LOCAL[u].properties.span_ids # <<>>

\* a thread with no trace has called new_span
C17_WitnessSpan ==
    \E t \in Threads :
        /\ ret = Returned("new_span", t, FALSE)
        /\ TRACE_LOCAL[t] = NewTraceLocal(ThreadPrefix(t))

RECURSIVE LocalSpanIds(_)
LocalSpanIds(ts) ==
    IF ts = {} THEN <<>>
    ELSE LET t == CHOOSE x \in ts : TRUE
         IN  [i \in DOMAIN TRACE_LOCAL[t].spans |-> TRACE_LOCAL[t].spans[i].id]
                 \o LocalSpanIds(ts \ {t})

\* the ids of the spans held by the threads, the channel and the finisher
HeldSpanIds ==
    LET sent == FlattenSpans(tx) \o finisher.spans
    IN  LocalSpanIds(DOMAIN TRACE_LOCAL) \o [i \in DOMAIN sent |-> sent[i].id]

\* C18: the release of the guard that empties a thread's stack, the root's
\* ScopeGuard or a handle's AsyncScopeGuard, leaves the thread with an empty
\* stack, span vector and property arrays and no collector, and hands every
\* span and property the thread held to the collector as one span set (kept
\* in the channel while the receiver lives); a thread that holds no guard is
\* clear, and no span is held in two places.
C18_ClearAfterRelease ==
    /\ [][\A t \in Threads :
            (/\ guards[t] # <<>>
             /\ Last(guards[t]).kind \in {"ScopeGuard", "AsyncScopeGuard"}
             /\ guards'[t] = Front(guards[t]))
            => LET l == TRACE_LOCAL[t]
                   m == TRACE_LOCAL'[t]
               IN  /\ guards'[t] = <<>>
                   /\ m.enter_stack = <<>>
                   /\ m.spans = <<>>
                   /\ m.properties = EmptyProperties
                   /\ ~m.collector
                   /\ IF ReceiverAlive
                      THEN /\ Len(tx') = Len(tx) + 1
                           /\ SubSeq(tx', 1, Len(tx)) = tx
                           /\ Len(Last(tx').spans) = Len(l.spans)
                           /\ \A i \in DOMAIN l.spans : Last(tx').spans[i].id = l.spans[i].id
                           /\ Last(tx').properties = l.properties
                      ELSE tx' = tx
       ]_vars
    /\ [](\A t \in Threads :
            guards[t] = <<>>
            => /\ TRACE_LOCAL[t].enter_stack = <<>>
               /\ TRACE_LOCAL[t].spans = <<>>
               /\ TRACE_LOCAL[t].properties = EmptyProperties
               /\ ~TRACE_LOCAL[t].collector)
    /\ [](\A i, j \in DOMAIN HeldSpanIds : HeldSpanIds[i] = HeldSpanIds[j] => i = j)

\* the worker has released its AsyncScopeGuard and the root thread its
\* ScopeGuard; each batch carries the thread's spans and one property
C18_Witness ==
    /\ Len(tx) = 2
    /\ \A t \in Threads : guards[t] = <<>> /\ TRACE_LOCAL[t] = [NewTraceLocal(ThreadPrefix(t)) EXCEPT !.id_suffix = TRACE_LOCAL[t].id_suffix]
    /\ \E i, j \in 1..2 :
          /\ Len(tx[i].spans) = 1 /\ Len(tx[j].spans) = 2
          /\ tx[j].spans[1].state = "Pending"
          /\ Len(tx[i].properties.span_ids) = 1
          /\ Len(tx[j].properties.span_ids) = 1

(***************************************************************************)
(* Properties of Part II                                                   *)
(***************************************************************************)
\* the submissions collect drained, and the list it returned
Drained == collector.span_collections
ReturnedIds == {collector.spans[i].id : i \in DOMAIN collector.spans}

\* the id of the root scope
RootId == scope[1].scope_id

\* the root ScopeSpan is among the drained submissions
RootDrained ==
    \E i \in DOMAIN Drained :
        Drained[i].kind = "ScopeSpan" /\ Drained[i].span.id = RootId

\* how long the root span lasted, in ns
RootDurationNs ==
    LET i == CHOOSE i \in DOMAIN Drained :
                 Drained[i].kind = "ScopeSpan" /\ Drained[i].span.id = RootId
    IN  (Drained[i].span.end_cycle - Drained[i].span.begin_cycle) * NsPerCycle

\* the parent ids the caller of collect supplied
SuppliedParentIds ==
    IF collector.parent_id_of_root = None THEN {}
    ELSE {collector.parent_id_of_root[1]}

\* every returned span but the root has its parent in the list, or the
\* supplied parent_id_of_root as parent
ParentsResolve ==
    \A i \in DOMAIN collector.spans :
        LET sp == collector.spans[i] IN
        sp.id # RootId =>
            sp.parent_id \in (ReturnedIds \ {sp.id}) \cup SuppliedParentIds

\* the LocalSpans batches among the drained submissions
Batches == {n \in DOMAIN Drained : Drained[n].kind = "LocalSpans"}

\* in the batch b the j-th span is recorded as a descendant of the i-th
RECURSIVE RecordedUnder(_, _, _)
RecordedUnder(b, j, i) ==
    /\ j > i
    /\ \E k \in i..(j - 1) :
          /\ b[k].id = b[j].parent_id
          /\ (k = i \/ RecordedUnder(b, k, i))

\* collect took the root-only path
RootOnlyPath ==
    /\ collector.duration_threshold # None
    /\ RootDrained
    /\ RootDurationNs < collector.duration_threshold[1]

\* C2: whenever collect is called, every returned span other than the root
\* has a parent_id that is the id of another returned span or the supplied
\* parent_id_of_root.
C2_ParentsResolveAtAnyMoment ==
    collector.pc = "done" => ParentsResolve

\* C2, amended: when collect drains after every scope and every attach guard
\* of the trace has been released, every returned span other than the root
\* has a parent_id that is the id of another returned span or the supplied
\* parent_id_of_root.
C2_ParentsResolveAfterRelease ==
    (collector.pc = "done" /\ collector.quiescent) => ParentsResolve

C2_Witness ==
    /\ collector.pc = "done"
    /\ collector.quiescent
    /\ Len(collector.spans) >= 3
    /\ \E n \in Batches : \E i \in DOMAIN Drained[n].spans :
          /\ Drained[n].spans[i].is_spawn_span
          /\ \E m \in DOMAIN Drained :
                /\ Drained[m].kind = "ScopeSpan"
                /\ Drained[m].span.parent_id = Drained[n].spans[i].id
                /\ Drained[m].span.id \in ReturnedIds

\* C3: collect returns no span whose end_cycle is 0 and no span recorded in
\* its batch as a descendant of such a span.
C3_UnfinishedSubtreeDropped ==
    collector.pc = "done" =>
        \A n \in Batches :
            LET b == Drained[n].spans IN
            \A i \in DOMAIN b :
                is_zero(b[i].end_cycle) =>
                    /\ b[i].id \notin ReturnedIds
                    /\ \A j \in DOMAIN b :
                          RecordedUnder(b, j, i) => b[j].id \notin ReturnedIds

\* C3, amended: collect returns no span whose end_cycle is 0; a finished
\* span recorded directly under an unfinished one is returned (on the full
\* path, unless it is a spawn span), with the batch's parent scope id as
\* parent_id.
C3_UnfinishedDroppedChildrenAdopted ==
    collector.pc = "done" =>
        \A n \in Batches :
            LET b == Drained[n].spans IN
            \A i \in DOMAIN b :
                /\ is_zero(b[i].end_cycle) => b[i].id \notin ReturnedIds
                /\ (/\ ~RootOnlyPath
                    /\ ~is_zero(b[i].end_cycle)
                    /\ ~b[i].is_spawn_span
                    /\ \E k \in 1..(i - 1) :
                          b[k].id = b[i].parent_id /\ is_zero(b[k].end_cycle))
                   => \E m \in DOMAIN collector.spans :
                         /\ collector.spans[m].id = b[i].id
                         /\ collector.spans[m].parent_id = Drained[n].parent_span_id

C3_Witness ==
    /\ collector.pc = "done"
    /\ ~RootOnlyPath
    /\ RootId \in ReturnedIds
    /\ \E n \in Batches :
          LET b == Drained[n].spans IN
          \E i \in DOMAIN b, j \in DOMAIN b :
              /\ is_zero(b[i].end_cycle)
              /\ RecordedUnder(b, j, i)
              /\ ~is_zero(b[j].end_cycle)

\* C4: collect with duration_threshold T, the root span drained and shorter
\* than T, returns exactly one span, the root, whatever else was drained.
C4_ShortRootAlone ==
    (collector.pc = "done" /\ RootOnlyPath) =>
        /\ Len(collector.spans) = 1
        /\ collector.spans[1].id = RootId

C4_Witness ==
    /\ collector.pc = "done"
    /\ RootOnlyPath
    /\ Len(Drained) >= 3
    /\ Batches # {}
    /\ \E i \in DOMAIN Drained :
          Drained[i].kind = "ScopeSpan" /\ Drained[i].span.id # RootId

\* C5: collect with a duration_threshold and the root span drained returns
\* the root span alone whenever the root's duration is equal to or below the
\* threshold, and all spans only when the duration exceeds it.
C5_RootAloneUnlessExceeds ==
    (/\ collector.pc = "done"
     /\ collector.duration_threshold # None
     /\ RootDrained
     /\ RootDurationNs <= collector.duration_threshold[1])
    => /\ Len(collector.spans) = 1
       /\ collector.spans[1].id = RootId

\* the raw spans drained: the scope spans and the members of the batches
DrainedRawSpans ==
    {Drained[n].span : n \in {m \in DOMAIN Drained : Drained[m].kind = "ScopeSpan"}}
        \cup UNION {SeqToSet(Drained[n].spans) : n \in Batches}

\* C23: every span collect returns comes from a drained span whose end cycle
\* is not smaller than its begin cycle, and its duration, the end time minus
\* the begin time, is not negative; this holds for scope spans, for the
\* top-level spans of a batch and for the spans nested under them.
C23_DurationNonNegative ==
    collector.pc = "done" =>
        \A i \in DOMAIN collector.spans :
            /\ collector.spans[i].duration_ns >= 0
            /\ collector.spans[i].begin_unix_time_ns > 0
            /\ \E r \in DrainedRawSpans :
                  /\ r.id = collector.spans[i].id
                  /\ r.end_cycle >= r.begin_cycle
                  /\ collector.spans[i].duration_ns
                        = (r.end_cycle - r.begin_cycle) * NsPerCycle

\* the root scope span, a top-level span of a batch and a span nested under
\* it have been returned
C23_Witness ==
    /\ collector.pc = "done"
    /\ RootId \in ReturnedIds
    /\ \E n \in Batches :
          LET b == Drained[n].spans IN
          \E i \in DOMAIN b, j \in DOMAIN b :
              /\ RecordedUnder(b, j, i)
              /\ b[i].descendant_count > 0
              /\ {b[i].id, b[j].id} \subseteq ReturnedIds

\* the parent_id the returned list gives the span id (0 when it is not there)
ReturnedParent(spans, id) ==
    IF \E i \in DOMAIN spans : spans[i].id = id
    THEN spans[CHOOSE i \in DOMAIN spans : spans[i].id = id].parent_id
    ELSE 0

\* what collect returns for the same submissions when no parent_id_of_root
\* is supplied
ReturnedWithoutParentOfRoot ==
    Collector_collect(Drained, collector.duration_threshold, None, anchor_at(clock))

\* C26: in a returned list that holds the root span, the root's parent_id is
\* the supplied parent_id_of_root, 0 when none was supplied, on the root-only
\* path and on the full path; every other returned span has the parent_id it
\* has when no parent_id_of_root is supplied.
C26_RootParentRewritten ==
    collector.pc = "done" =>
        \A i \in DOMAIN collector.spans :
            LET sp == collector.spans[i] IN
            IF sp.id = RootId
            THEN sp.parent_id = IF collector.parent_id_of_root = None THEN 0
                                ELSE collector.parent_id_of_root[1]
            ELSE /\ sp.id \in {ReturnedWithoutParentOfRoot[j].id :
                                  j \in DOMAIN ReturnedWithoutParentOfRoot}
                 /\ sp.parent_id = ReturnedParent(ReturnedWithoutParentOfRoot, sp.id)

\* a parent_id_of_root was supplied and the root came back on the full path
\* with a scope span and a local span beside it
C26_Witness ==
    /\ collector.pc = "done"
    /\ collector.parent_id_of_root # None
    /\ ~RootOnlyPath
    /\ RootId \in ReturnedIds
    /\ \E m \in DOMAIN Drained :
          /\ Drained[m].kind = "ScopeSpan"
          /\ Drained[m].span.id # RootId
          /\ Drained[m].span.id \in ReturnedIds
    /\ \E n \in Batches : \E i \in DOMAIN Drained[n].spans :
          Drained[n].spans[i].id \in ReturnedIds

\* a parent_id_of_root was supplied and the root came back alone, on the
\* root-only path
C26_WitnessRootOnly ==
    /\ collector.pc = "done"
    /\ collector.parent_id_of_root # None
    /\ RootOnlyPath
    /\ Len(Drained) >= 2
    /\ collector.spans[1].parent_id = collector.parent_id_of_root[1]

\* parent_ids_of_spawn_spans as remove_unfinished_and_spawn_spans fills it
\* from the drained submissions
SpawnMap ==
    span_collections_loop(Drained, 0,
        [spans |-> <<>>, pending_scope_spans |-> <<>>,
         parent_ids_of_spawn_spans |-> <<>>], anchor_at(clock)).parent_ids_of_spawn_spans

\* the i-th span of the batch b was recorded under an earlier span of b
NestedIn(b, i) == \E k \in 1..(i - 1) : b[k].id = b[i].parent_id

\* the i-th span of the batch b was recorded under a finished span of b
NestedInFinished(b, i) ==
    \E k \in 1..(i - 1) : b[k].id = b[i].parent_id /\ ~is_zero(b[k].end_cycle)

\* C27 (as stated): no spawn span is returned; the map of spawn spans gives a
\* top-level spawn span of a batch the batch's parent scope id and a spawn
\* span nested under another span of the batch its own recorded parent.
C27_SpawnSpansMapped ==
    collector.pc = "done" =>
        \A n \in Batches :
            LET b == Drained[n].spans IN
            \A i \in DOMAIN b :
                b[i].is_spawn_span =>
                    /\ b[i].id \notin ReturnedIds
                    /\ b[i].id \in DOMAIN SpawnMap
                    /\ SpawnMap[b[i].id] = IF NestedIn(b, i) THEN b[i].parent_id
                                           ELSE Drained[n].parent_span_id

\* C27 (amended): no spawn span is returned; the map of spawn spans gives a
\* spawn span recorded under a finished span of its batch its own recorded
\* parent, and every other spawn span, top-level or recorded under a span
\* still unfinished at submission, the batch's parent scope id.
C27_SpawnSpansMappedFinished ==
    collector.pc = "done" =>
        \A n \in Batches :
            LET b == Drained[n].spans IN
            \A i \in DOMAIN b :
                b[i].is_spawn_span =>
                    /\ b[i].id \notin ReturnedIds
                    /\ b[i].id \in DOMAIN SpawnMap
                    /\ SpawnMap[b[i].id] = IF NestedInFinished(b, i) THEN b[i].parent_id
                                           ELSE Drained[n].parent_span_id

\* a spawn span nested under a finished span that was returned, on the full path
C27_Witness ==
    /\ collector.pc = "done"
    /\ ~RootOnlyPath
    /\ \E n \in Batches :
          LET b == Drained[n].spans IN
          \E i \in DOMAIN b :
              /\ b[i].is_spawn_span
              /\ NestedInFinished(b, i)
              /\ b[i].parent_id \in ReturnedIds

\* a top-level spawn span, on the full path
C27_WitnessTopLevel ==
    /\ collector.pc = "done"
    /\ ~RootOnlyPath
    /\ RootId \in ReturnedIds
    /\ \E n \in Batches :
          LET b == Drained[n].spans IN
          \E i \in DOMAIN b : b[i].is_spawn_span /\ ~NestedIn(b, i)

\* the ids of the spawn spans in the drained batches
DrainedSpawnIds ==
    UNION {{Drained[n].spans[i].id :
               i \in {k \in DOMAIN Drained[n].spans : Drained[n].spans[k].is_spawn_span}} :
           n \in Batches}

\* the parent that takes the place of the drained spawn span id
ReplacementParent(id) ==
    LET n == CHOOSE m \in Batches :
                 \E i \in DOMAIN Drained[m].spans : Drained[m].spans[i].id = id
        b == Drained[n].spans
        i == CHOOSE k \in DOMAIN b : b[k].id = id
    IN  IF NestedInFinished(b, i) THEN b[i].parent_id ELSE Drained[n].parent_span_id

\* the drained ScopeSpans that are not the root's
DeferredScopeSpans ==
    {m \in DOMAIN Drained : Drained[m].kind = "ScopeSpan" /\ ~is_root(Drained[m].span)}

\* the ids of the spawn spans of the trace: those drained, those submitted
\* since the drain and those still on the span line of a thread
SpawnIdsOf(spans) ==
    {spans[i].id : i \in {k \in DOMAIN spans : spans[k].is_spawn_span}}

AllSpawnIds ==
    DrainedSpawnIds
        \cup UNION {SpawnIdsOf(receiver[n].spans) :
                       n \in {m \in DOMAIN receiver : receiver[m].kind = "LocalSpans"}}
        \cup UNION {SpawnIdsOf(SPAN_LINE[t].spans) : t \in DOMAIN SPAN_LINE}

\* on the full path every drained ScopeSpan other than the root's is returned,
\* with the replacement parent of the drained spawn span that is its parent,
\* and with its own parent_id otherwise
DeferredScopeSpansResolved ==
    ~RootOnlyPath =>
        \A m \in DeferredScopeSpans :
            LET raw == Drained[m].span IN
            \E i \in DOMAIN collector.spans :
                /\ collector.spans[i].id = raw.id
                /\ collector.spans[i].parent_id =
                       IF raw.parent_id \in DrainedSpawnIds
                       THEN ReplacementParent(raw.parent_id)
                       ELSE raw.parent_id

\* C28 (as stated): every drained ScopeSpan other than the root's whose
\* parent_id is the id of a spawn span is returned with that spawn span's
\* replacement parent, wherever the batch of the spawn span stood among the
\* submissions; the other ScopeSpans keep their parent_id; and no returned
\* span has the id of a spawn span as parent_id.
C28_SpawnParentsReplaced ==
    collector.pc = "done" =>
        /\ DeferredScopeSpansResolved
        /\ \A i \in DOMAIN collector.spans :
               collector.spans[i].parent_id \notin AllSpawnIds

\* C28 (amended): the same for the spawn spans whose batch was among the
\* drained submissions; a ScopeSpan whose spawn span was not drained keeps the
\* spawn span's id as parent_id.
C28_DrainedSpawnParentsReplaced ==
    collector.pc = "done" =>
        /\ DeferredScopeSpansResolved
        /\ \A i \in DOMAIN collector.spans :
               collector.spans[i].parent_id \notin DrainedSpawnIds
        /\ \A m \in DeferredScopeSpans :
               (~RootOnlyPath /\ Drained[m].span.parent_id \in AllSpawnIds \ DrainedSpawnIds)
               => \E i \in DOMAIN collector.spans :
                     /\ collector.spans[i].id = Drained[m].span.id
                     /\ collector.spans[i].parent_id = Drained[m].span.parent_id

\* a ScopeSpan made by a spawn span was drained ahead of the batch that holds
\* the spawn span, and was returned
C28_Witness ==
    /\ collector.pc = "done"
    /\ ~RootOnlyPath
    /\ \E m \in DeferredScopeSpans, n \in Batches :
          /\ m < n
          /\ \E i \in DOMAIN Drained[n].spans :
                /\ Drained[n].spans[i].is_spawn_span
                /\ Drained[n].spans[i].id = Drained[m].span.parent_id
          /\ Drained[m].span.id \in ReturnedIds

\* the same with the batch drained ahead of the ScopeSpan
C28_WitnessBatchFirst ==
    /\ collector.pc = "done"
    /\ ~RootOnlyPath
    /\ \E m \in DeferredScopeSpans, n \in Batches :
          /\ n < m
          /\ \E i \in DOMAIN Drained[n].spans :
                /\ Drained[n].spans[i].is_spawn_span
                /\ Drained[n].spans[i].id = Drained[m].span.parent_id
          /\ Drained[m].span.id \in ReturnedIds

\* a ScopeSpan whose parent is not a spawn span was returned
C28_WitnessKept ==
    /\ collector.pc = "done"
    /\ ~RootOnlyPath
    /\ \E m \in DeferredScopeSpans :
          /\ Drained[m].span.parent_id \notin AllSpawnIds
          /\ Drained[m].span.id \in ReturnedIds

\* the orders in which n submissions can stand in the channel
ArrivalOrders(n) == {f \in [1..n -> 1..n] : \A i, j \in 1..n : f[i] = f[j] => i = j}

\* id, parent_id, begin and duration of every span of the list
SpanFacts(spans) ==
    {<<spans[i].id, spans[i].parent_id, spans[i].begin_unix_time_ns,
       spans[i].duration_ns>> : i \in DOMAIN spans}

\* what collect returns for the drained submissions taken in the order f
CollectedInOrder(f) ==
    Collector_collect([i \in DOMAIN Drained |-> Drained[f[i]]],
        collector.duration_threshold, collector.parent_id_of_root,
        anchor_at(clock))

\* C29: the set of spans collect returns, each with its id, parent_id, begin
\* and duration, is the same for every order of the drained submissions.
C29_OrderIndependent ==
    collector.pc = "done" =>
        \A f \in ArrivalOrders(Len(Drained)) :
            SpanFacts(CollectedInOrder(f)) = SpanFacts(collector.spans)

\* collect has returned, on the full path, the root span, a batch with a spawn
\* span and the ScopeSpan made by that spawn span, drained ahead of the batch
C29_Witness ==
    /\ collector.pc = "done"
    /\ ~RootOnlyPath
    /\ RootId \in ReturnedIds
    /\ Len(Drained) >= 3
    /\ \E m \in DeferredScopeSpans, n \in Batches :
          /\ m < n
          /\ Drained[m].span.parent_id \in SpawnIdsOf(Drained[n].spans)

(***************************************************************************)
(* Properties of SpecAttach                                                *)
(***************************************************************************)
\* the guards of thread t that hold an attached trace
AttachGuards(t) ==
    {i \in DOMAIN guards[t] : guards[t][i].kind \in {"ScopeGuard", "AsyncScopeGuard"}}

PushedSpanSets == traced.collected \o queue

\* every span with a suspending state: buffered on a thread or pushed
SuspendingSpans ==
    {s \in UNION ({{trace_local[t].spans[i] : i \in DOMAIN trace_local[t].spans} :
                      t \in Threads}
                  \cup {{PushedSpanSets[k].spans[i] : i \in DOMAIN PushedSpanSets[k].spans} :
                           k \in DOMAIN PushedSpanSets}) :
        s.state \in {"Spawning", "Scheduling"}}

\* C10: the leading span of the first trace_enable of a handle has state
\* Spawning, the leading span of every later trace_enable of the handle has
\* state Scheduling, and a handle whose next suspending state is Scheduling
\* keeps it.
C10_SpawningThenScheduling ==
    /\ [](/\ \A h \in Handles : \A k \in DOMAIN emitted[h] :
                emitted[h][k].state = IF k = 1 THEN "Spawning" ELSE "Scheduling"
          /\ \A s \in SuspendingSpans : \E h \in Handles : \E k \in DOMAIN emitted[h] :
                /\ emitted[h][k].id = s.id
                /\ emitted[h][k].state = s.state
                /\ s.related_id = trace_handle[h].parent_id)
    /\ [][\A h \in Handles :
            trace_handle[h].next_suspending_state = "Scheduling"
            => trace_handle'[h].next_suspending_state = "Scheduling"]_vars

C10_Witness ==
    \E h \in Handles :
        /\ Len(emitted[h]) = 2
        /\ trace_handle[h].next_suspending_state = "Scheduling"
        /\ \E s \in SuspendingSpans : s.state = "Spawning"
        /\ \E s \in SuspendingSpans : s.state = "Scheduling" /\ s.id = emitted[h][2].id

C19_SyncCollectWaits ==
    /\ [][(collector.pc = "iter" /\ collector'.pc # "iter") => ~SendersAlive]_vars
    /\ [](collector.pc = "iter" => ~closed)
    /\ ((collector.pc = "iter" /\ ~SendersAlive) ~> (collector.pc = "done"))
    /\ ((collector.pc = "try_iter") ~> (collector.pc = "done"))

\* a collect(need_sync = true) is waiting: a scope span is already in the
\* channel and a clone of the Acquirer is still alive
C19_Witness ==
    /\ collector.pc = "iter"
    /\ SendersAlive
    /\ receiver # <<>>

\* a collect(need_sync = false) has returned while a clone was alive
C19_WitnessNoWait ==
    /\ collector.pc = "done"
    /\ ~collector.quiescent
    /\ SendersAlive

\* C20: the closed flag is false from the creation of the root until collect
\* is called and while collect drains; the only step that changes it is the
\* store of collect, which sets it true; once true it stays true whatever any
\* thread does afterwards, and it is true when collect has returned.
C20_ClosedOnceByCollect ==
    /\ [](collector.pc \in {"idle", "iter", "try_iter", "drained"} => ~closed)
    /\ [](collector.pc = "done" => closed)
    /\ [][closed => closed']_vars
    /\ [][(closed' # closed) => (collector.pc = "drained" /\ collector'.pc = "done")]_vars

\* after collect has set the flag another thread has dropped a scope and
\* released a guard, and the flag is still set
C20_Witness ==
    /\ closed
    /\ collector.pc = "done"
    /\ ~collector.quiescent
    /\ ~SendersAlive

\* the same for the flag of SyncCollector (src/collector/sync_impl.rs), under
\* Spec: false until Finisher::finish stores it, true ever after
C20_IsClosedOnceByFinish ==
    /\ [](finisher.pc = "idle" <=> ~is_closed)
    /\ [][is_closed => is_closed']_vars

(***************************************************************************)
(* Properties of SpecIds                                                   *)
(***************************************************************************)
\* C21: any two spans the process holds, on the threads, in the channel or
\* in the finisher, have different ids, also after a thread's suffix has
\* wrapped and whatever the number of draws from the global prefix counter.
C21_IdsDistinct ==
    \A i, j \in DOMAIN HeldSpanIds : HeldSpanIds[i] = HeldSpanIds[j] => i = j

\* C22: no span is given the id 0, after any number of allocations and of
\* draws from the global prefix counter.
C22_NoZeroId ==
    \A i \in DOMAIN HeldSpanIds : HeldSpanIds[i] # 0

(***************************************************************************)
(* Properties of SpecSiblings                                              *)
(***************************************************************************)
\* the summed durations of the spans of S at the positions I
RECURSIVE SumElapsed(_, _)
SumElapsed(S, I) ==
    IF I = {} THEN 0
    ELSE LET i == CHOOSE n \in I : TRUE
         IN  S[i].elapsed_cycles + SumElapsed(S, I \ {i})

\* the positions of the returned spans whose parent_id is the span at p
ChildrenOf(S, p) == {i \in DOMAIN S : S[i].parent_id = S[p].id}

\* the children that new_span opened: Normal spans carrying an event of Events
PlainChildrenOf(S, p) ==
    {i \in ChildrenOf(S, p) : S[i].state = "Normal" /\ S[i].event \in Events}

\* C24 (as stated): for every returned span, the durations of the returned
\* spans whose parent_id is that span sum to at most that span's own duration,
\* Pending spans and the spans a handle starts included.
C24_ChildrenWithinParent ==
    finisher.pc = "done"
    => \A p \in DOMAIN finisher.spans :
           SumElapsed(finisher.spans, ChildrenOf(finisher.spans, p))
               <= finisher.spans[p].elapsed_cycles

\* C24 (amended): for every returned span, the durations of its returned
\* children that new_span opened sum to at most that span's own duration; the
\* Pending span of a handle, the span entered under a Pending span and the span
\* a handle starts on a thread that has a trace are not bounded by their parent.
C24_PlainChildrenWithinParent ==
    finisher.pc = "done"
    => \A p \in DOMAIN finisher.spans :
           SumElapsed(finisher.spans, PlainChildrenOf(finisher.spans, p))
               <= finisher.spans[p].elapsed_cycles

\* a returned span with two children opened by new_span, and a returned Pending
\* span of a handle
C24_Witness ==
    /\ finisher.pc = "done"
    /\ \E p \in DOMAIN finisher.spans :
           Cardinality(PlainChildrenOf(finisher.spans, p)) = 2
    /\ \E i \in DOMAIN finisher.spans : finisher.spans[i].state = "Pending"

(***************************************************************************)
(* Properties of SpecUnordered                                             *)
(***************************************************************************)
\* the spans of l other than the one at index, with what was recorded of them
OtherSpans(l, index) == [i \in DOMAIN l.spans \ {index} |-> l.spans[i]]

\* C25: the release of a guard whose span is not on top of the stack leaves
\* the stack, the length of the span vector, every other span and the
\* collector slot as they were, and no release panics.
C25_UnorderedReleaseNoOp ==
    [][/\ ret'.op # "panic"
       /\ (ret'.op = "release" /\ ~ret'.some)
          => \E k \in DOMAIN guards[UnorderedThread] :
               LET l  == TRACE_LOCAL[UnorderedThread]
                   l2 == TRACE_LOCAL'[UnorderedThread]
                   g  == guards[UnorderedThread][k]
               IN  /\ guards'[UnorderedThread] = RemoveAt(guards[UnorderedThread], k)
                   /\ l2.enter_stack = l.enter_stack
                   /\ DOMAIN l2.spans = DOMAIN l.spans
                   /\ OtherSpans(l2, g.span_index) = OtherSpans(l, g.span_index)
                   /\ l2.collector = l.collector]_vars

(***************************************************************************)
(* Properties of SpecNest: the order of a submitted batch                  *)
(***************************************************************************)
\* the batches the threads submitted: those in the channel and the one merged
SubmittedBatches == {tx[n].spans : n \in DOMAIN tx} \cup {finisher.spans}

\* the guard of the span s was released before the guard of the span u
ReleasedBefore(s, u) ==
    s.begin_cycles + s.elapsed_cycles < u.begin_cycles + u.elapsed_cycles

\* C30 (as stated): the spans of a submitted batch stand in the order in which
\* their guards were released, every span after the spans recorded under it.
C30_BatchInCloseOrder ==
    \A S \in SubmittedBatches :
        /\ \A i, j \in DOMAIN S : i < j => ReleasedBefore(S[i], S[j])
        /\ \A i, j \in DOMAIN S : S[j].parent_id = S[i].id => j < i

\* C30 (amended): the spans of a submitted batch stand in the order in which
\* they were opened, every span ahead of the spans recorded under it, its
\* parent among the spans before it.
C30_BatchInOpenOrder ==
    \A S \in SubmittedBatches :
        /\ \A i, j \in DOMAIN S : i < j => S[i].begin_cycles < S[j].begin_cycles
        /\ \A i, j \in DOMAIN S : S[j].parent_id = S[i].id => i < j
        /\ \A j \in DOMAIN S :
               j > 1 => \E i \in 1..(j - 1) : S[i].id = S[j].parent_id

\* a batch was submitted in which a span holds a span that was closed before
\* its sibling was opened
C30_Witness ==
    \E n \in DOMAIN tx :
        LET S == tx[n].spans IN
        /\ Len(S) = 4
        /\ S[2].parent_id = S[1].id
        /\ S[3].parent_id = S[2].id
        /\ S[4].parent_id = S[1].id
        /\ OpenedInside(S[2], S[3])
        /\ ClosedBefore(S[2], S[4])

(***************************************************************************)
(* Properties of Part I: the stack and the collector slot                  *)
(***************************************************************************)
\* C31: on every thread, between operations, the stack is non-empty exactly
\* when a collector is installed in the thread-local slot.
C31_StackIffCollector ==
    \A t \in Threads :
        (TRACE_LOCAL[t].enter_stack # <<>>) <=> TRACE_LOCAL[t].collector

\* a handle is attached on one thread, stack and collector both there, after
\* the root's thread released its guard and lost both
C31_Witness ==
    \E t, u \in Threads :
        /\ guards[t] # <<>>
        /\ guards[t][1].kind = "AsyncScopeGuard"
        /\ TRACE_LOCAL[t].enter_stack # <<>>
        /\ TRACE_LOCAL[t].collector
        /\ tx # <<>>
        /\ TRACE_LOCAL[u].enter_stack = <<>>
        /\ ~TRACE_LOCAL[u].collector
        /\ allocated.root > 0

(***************************************************************************)
(* Properties of SpecRecord: the three arrays of Properties                *)
(***************************************************************************)
\* the arrays of p agree: an id for every length, the lengths adding up to
\* the payload
ArraysAgree(p) ==
    /\ Len(p.span_ids) = Len(p.property_lens)
    /\ SumSeq(p.property_lens) = Len(p.payload)

\* C32: the arrays agree in every thread-local property buffer, in every
\* submitted SpanSet and in what finish has merged; new_property, the drain on
\* release and each turn of the loop of finish, which appends the three arrays
\* of one more SpanSet, keep it so.
C32_PropertyArraysAgree ==
    /\ [](/\ \A t \in Threads : ArraysAgree(TRACE_LOCAL[t].properties)
          /\ \A n \in DOMAIN tx : ArraysAgree(tx[n].properties)
          /\ ArraysAgree(finisher.properties))
    /\ [][(finisher.pc = "loop" /\ tx # <<>> /\ tx' = Tail(tx))
          => LET p == finisher.properties
                 q == finisher'.properties
                 s == Head(tx).properties
             IN  /\ q.span_ids = p.span_ids \o s.span_ids
                 /\ q.property_lens = p.property_lens \o s.property_lens
                 /\ q.payload = p.payload \o s.payload
                 /\ ArraysAgree(p) /\ ArraysAgree(s) /\ ArraysAgree(q)
       ]_vars

\* finish has merged two SpanSets that each came with a property, one of them
\* with a payload of two bytes
C32_Witness ==
    /\ finisher.pc = "done"
    /\ Len(finisher.properties.span_ids) = 2
    /\ finisher.properties.span_ids[1] \div ID_PREFIX_UNIT
           # finisher.properties.span_ids[2] \div ID_PREFIX_UNIT
    /\ 2 \in SeqToSet(finisher.properties.property_lens)
    /\ Len(finisher.properties.payload) >= 2

(***************************************************************************)
(* Properties of SpecMerge                                                 *)
(***************************************************************************)
\* the entries the parents in the slots P hold: parent i, entry j
ParentEntries(P) ==
    UNION {{<<i, j>> : j \in DOMAIN merge_scope[P[i]].to_report} : i \in DOMAIN P}

\* those of them whose Acquirer is not shut down
OpenParentEntries(P) ==
    {e \in ParentEntries(P) :
        ~acquirer[merge_scope[P[e[1]]].to_report[e[2]].acq].closed}

\* the slot s is filled by this step, by Scope::merge or Scope::child
MergedNow(s) ==
    /\ merge_scope[s].st = "absent"
    /\ merge_scope'[s].st = "live"
    /\ merge_scope'[s].from # <<>>

\* C33: a scope merged from parents whose Acquirers are all shut down, or from
\* empty parents only, has no inner: it is empty, holds no pending span, and
\* its release submits nothing; merged from parents of which some Acquirers
\* are shut down it holds one pending span for every parent entry whose
\* Acquirer is open, and none for the others.
C33_NoOpScope ==
    [][\A s \in MergeSlots :
         /\ MergedNow(s)
            => LET P    == merge_scope'[s].from
                   new  == merge_scope'[s].to_report
                   Open == OpenParentEntries(P)
               IN  /\ (Open = {}) <=> ~merge_scope'[s].inner
                   /\ Len(new) = Cardinality(Open)
                   /\ \A c \in MergeTraces :
                        Cardinality({n \in DOMAIN new : new[n].acq = c})
                          = Cardinality({e \in Open :
                                merge_scope[P[e[1]]].to_report[e[2]].acq = c})
                   /\ \A n \in DOMAIN new : is_zero(new[n].span.end_cycle)
         /\ (merge_scope[s].st = "live" /\ ~merge_scope[s].inner
             /\ merge_scope'[s].st = "dropped")
            => /\ merge_scope[s].to_report = <<>>
               /\ acquirer' = acquirer
      ]_vars

\* a scope merged from a parent of a trace that is shut down and a parent of a
\* trace that is open holds one pending span, for the open one
C33_Witness ==
    \E s \in MergeSlots, c, d \in MergeTraces :
        /\ merge_scope[s].st = "live"
        /\ Len(merge_scope[s].from) = 2
        /\ Len(merge_scope[s].to_report) = 1
        /\ merge_scope[s].to_report[1].acq = d
        /\ acquirer[c].closed
        /\ ~acquirer[d].closed
        /\ \E i \in 1..2 :
              LET p == merge_scope[merge_scope[s].from[i]] IN
              p.st = "live" /\ p.inner /\ p.to_report[1].acq = c

\* a scope merged from parents whose Acquirers are all shut down was released
C33_WitnessNoOp ==
    \E s \in MergeSlots :
        /\ merge_scope[s].st = "dropped"
        /\ merge_scope[s].from # <<>>
        /\ merge_scope[s].scope_id = 0
        /\ \E i \in DOMAIN merge_scope[s].from :
              merge_scope[merge_scope[s].from[i]].scope_id # 0

\* the span collections handed to submit so far that carry the span id
CallsWith(c, id) ==
    {n \in DOMAIN acquirer[c].calls : acquirer[c].calls[n].span.id = id}

\* C34: a scope merged from parents that together hold k entries with an open
\* Acquirer holds k entries, all with the scope's id and one begin cycle, each
\* with the scope id of its parent as parent_id and with the Acquirer of the
\* parent's entry; nothing with its id is submitted while it lives; its
\* release hands each Acquirer one ScopeSpan for every entry that names it,
\* all with the same non-zero end cycle, and nothing with its id is submitted
\* by any other step.
C34_MergedScopeSpans ==
    /\ [][\A s \in MergeSlots :
            /\ MergedNow(s)
               => LET P    == merge_scope'[s].from
                      new  == merge_scope'[s].to_report
                      Open == OpenParentEntries(P)
                  IN  /\ Len(new) = Cardinality(Open)
                      /\ \A n \in DOMAIN new :
                           /\ new[n].span.id = merge_scope'[s].scope_id
                           /\ new[n].span.id = merge_next_id
                           /\ new[n].span.begin_cycle = clock
                      /\ \A i \in DOMAIN P, c \in MergeTraces :
                           Cardinality({n \in DOMAIN new :
                               /\ new[n].span.parent_id = merge_scope[P[i]].scope_id
                               /\ new[n].acq = c})
                             = Cardinality({e \in Open :
                                 /\ merge_scope[P[e[1]]].scope_id = merge_scope[P[i]].scope_id
                                 /\ merge_scope[P[e[1]]].to_report[e[2]].acq = c})
            /\ (merge_scope[s].st = "live" /\ merge_scope[s].inner
                /\ merge_scope'[s].st = "dropped")
               => LET old == merge_scope[s].to_report IN
                  \A c \in MergeTraces :
                      LET mine == SelectSeq(old, LAMBDA e : e.acq = c) IN
                      /\ acquirer'[c].calls = acquirer[c].calls \o
                             [n \in DOMAIN mine |->
                                 ScopeSpan([mine[n].span EXCEPT !.end_cycle = clock])]
                      /\ clock # 0
                      /\ ~acquirer[c].closed
                         => Len(acquirer'[c].receiver)
                              = Len(acquirer[c].receiver) + Len(mine)
       ]_vars
    /\ [][\A c \in MergeTraces :
            acquirer'[c].calls # acquirer[c].calls
            => \E s \in MergeSlots :
                  /\ merge_scope[s].st = "live"
                  /\ merge_scope'[s].st = "dropped"
                  /\ \A n \in (DOMAIN acquirer'[c].calls) \ (DOMAIN acquirer[c].calls) :
                        acquirer'[c].calls[n].span.id = merge_scope[s].scope_id
       ]_vars
    /\ [](\A s \in MergeSlots :
            (merge_scope[s].st = "live" /\ merge_scope[s].inner)
            => \A c \in MergeTraces : CallsWith(c, merge_scope[s].scope_id) = {})

\* a scope merged from the roots of two traces was released: each trace
\* received one ScopeSpan, both with the scope's id and the same cycles, each
\* with the id of its own root as parent_id
C34_Witness ==
    \E s \in MergeSlots :
        /\ merge_scope[s].st = "dropped"
        /\ Len(merge_scope[s].from) = 2
        /\ \A c \in MergeTraces :
              \E n \in DOMAIN acquirer[c].receiver :
                  LET sp == acquirer[c].receiver[n].span IN
                  /\ sp.id = merge_scope[s].scope_id
                  /\ sp.id # 0
                  /\ sp.end_cycle # 0
                  /\ \E i \in 1..2 :
                        /\ merge_scope[merge_scope[s].from[i]].scope_id = sp.parent_id
                        /\ merge_scope[merge_scope[s].from[i]].from = <<>>

(***************************************************************************)
(* Properties of Part I: the cycles of a handle's Pending spans            *)
(***************************************************************************)
\* C35: of two consecutive async attaches of a handle, the Pending span of the
\* later one begins at the cycle at which the span entered by the earlier one
\* ended, the cycle sampled when its guard was released.
C35_PendingBeginsAtRelease ==
    \A h \in Handles :
        LET A == history[h].attaches IN
        \A k \in DOMAIN A :
            k > 1 =>
                \A sp \in AllSpans :
                    (sp.id = A[k - 1].settle.id /\ sp.elapsed_cycles # 0)
                    => A[k].pending.begin_cycles = sp.begin_cycles + sp.elapsed_cycles

\* C38: no Pending span begins at the cycle 0, the mark AsyncHandle::new_span
\* leaves in begin_cycles; every Pending span begins at a cycle read for its
\* handle, which is the cycle at which the handle was made or a later one.
C38_PendingBeginSampled ==
    \A sp \in AllSpans :
        sp.state = "Pending" =>
            /\ sp.begin_cycles # 0
            /\ \A sq \in AllSpans :
                   (sq.id = sp.parent_id /\ sq.state = "Normal")
                   => sq.begin_cycles <= sp.begin_cycles

(***************************************************************************)
(* Properties of SpecSiblings: a span and its parent in one batch          *)
(***************************************************************************)
\* the batches of one thread each, as they wait in the channel
LocalBatches == {tx[n].spans : n \in DOMAIN tx}

\* the span S[i] begins no earlier and ends no later than the span S[p]
Within(S, i, p) ==
    /\ S[p].begin_cycles <= S[i].begin_cycles
    /\ S[i].begin_cycles + S[i].elapsed_cycles
           <= S[p].begin_cycles + S[p].elapsed_cycles

\* C39 (as stated): every span of a thread's batch whose parent is in the same
\* batch begins no earlier and ends no later than its parent, the span a
\* handle starts on a thread that has a trace and the span entered under a
\* Pending span included.
C39_SpanWithinParent ==
    \A S \in LocalBatches :
        \A p \in DOMAIN S : \A i \in ChildrenOf(S, p) : Within(S, i, p)

\* C39 (amended): every span of a thread's batch that new_span opened and
\* whose parent is in the same batch begins no earlier and ends no later than
\* its parent.
C39_PlainSpanWithinParent ==
    \A S \in LocalBatches :
        \A p \in DOMAIN S : \A i \in PlainChildrenOf(S, p) : Within(S, i, p)

\* a batch with a span opened by new_span under a span of the batch, and a
\* batch with a span started by the handle under a span that is not the root
C39_Witness ==
    /\ \E S \in LocalBatches : \E p \in DOMAIN S : PlainChildrenOf(S, p) # {}
    /\ \E S \in LocalBatches : \E p \in DOMAIN S :
           \E i \in ChildrenOf(S, p) :
               /\ S[i].state = "Normal" /\ S[i].event = HandleEvent
               /\ S[p].state = "Normal" /\ S[p].parent_id # 0

(***************************************************************************)
(* Properties of Part I: a handle whose collector is closed                *)
(***************************************************************************)
\* h is the one handle that can be started
OnlyLive(h) ==
    /\ handle[h].st = "live"
    /\ \A g \in Handles \ {h} : handle[g].st # "live"

\* the step is a start_trace of a handle on thread t, which had no trace,
\* that returned None, recorded nothing and installed nothing
StartTraceNone(t) ==
    /\ ret' = Returned("AsyncHandle_start_trace", t, FALSE)
    /\ TRACE_LOCAL' = TRACE_LOCAL
    /\ guards' = guards
    /\ tx' = tx
    /\ GLOBAL_ID_COUNTER' = GLOBAL_ID_COUNTER

\* C40: a start_trace of a handle on a thread without a trace that finds the
\* handle's collector closed returns None, records nothing, installs nothing
\* and empties the handle's collector slot; the slot stays empty, and every
\* later start_trace of the handle on a thread without a trace does the same.
C40_ClosedHandleInert ==
    /\ [][\A h \in Handles, t \in Threads :
              (/\ OnlyLive(h) /\ handle[h].inner
               /\ TRACE_LOCAL[t].enter_stack = <<>>
               /\ ret'.op = "AsyncHandle_start_trace" /\ ret'.t = t
               /\ (is_closed \/ ~handle[h].collector))
              => /\ StartTraceNone(t)
                 /\ ~handle'[h].collector
                 /\ handle'[h].inner]_vars
    /\ [][\A h \in Handles :
              (handle[h].st = "live" /\ handle[h].inner /\ ~handle[h].collector)
              => ~handle'[h].collector]_vars

\* a start_trace of the handle on a thread without a trace has just returned
\* None, the collector closed and the handle's collector slot emptied
C40_Witness ==
    \E h \in Handles, t \in Threads :
        /\ OnlyLive(h) /\ handle[h].inner /\ ~handle[h].collector
        /\ is_closed
        /\ TRACE_LOCAL[t].enter_stack = <<>>
        /\ ret = Returned("AsyncHandle_start_trace", t, FALSE)

(***************************************************************************)
(* Properties of Part I: between the release of the root and the collect   *)
(***************************************************************************)
\* the ids of the spans of S
IdsOf(S) == {S[i].id : i \in DOMAIN S}

\* the ids of the spans in the channel or already merged by the Finisher
CarriedIds == UNION {IdsOf(S) : S \in SubmittedBatches}

\* the guard of the root started on thread t was released and its batch sent,
\* and finish was not called yet
RootReleasedOn(t) ==
    /\ finisher.pc = "idle"
    /\ TRACE_LOCAL[t].enter_stack = <<>>
    /\ \E S \in LocalBatches : \E i \in DOMAIN S :
           /\ S[i].parent_id = 0 /\ S[i].state = "Normal"
           /\ S[i].id \div ID_PREFIX_UNIT = ThreadPrefix(t)

\* C37: after the guard of the root was released and before finish, new_span
\* on the root's thread returns None and leaves the thread as it was, and a
\* handle captured with no trace on the threads has no inner; a handle that
\* was captured before the release still attaches on another thread that has
\* no trace.  The batch of every attach released before finish is sent, what
\* was sent stays in the channel until the Finisher merges it, and the channel
\* is empty when finish returns: those spans are in the collected result.
C37_AfterRootRelease ==
    /\ [][\A t \in Threads :
              RootReleasedOn(t)
              => /\ (ret'.op = "new_span" /\ ret'.t = t)
                    => (~ret'.some /\ TRACE_LOCAL' = TRACE_LOCAL /\ guards' = guards)
                 /\ \A h \in Handles :
                        (/\ handle[h].st = "absent" /\ handle'[h].st = "live"
                         /\ \A u \in Threads : TRACE_LOCAL[u].enter_stack = <<>>)
                        => ~handle'[h].inner
                 /\ \A h \in Handles, u \in Threads \ {t} :
                        (/\ OnlyLive(h) /\ handle[h].inner
                         /\ TRACE_LOCAL[u].enter_stack = <<>>
                         /\ ret'.op = "AsyncHandle_start_trace" /\ ret'.t = u)
                        => /\ ret'.some
                           /\ Last(guards'[u]).kind = "AsyncScopeGuard"
                           /\ Len(history'[h].attaches) = Len(history[h].attaches) + 1]_vars
    /\ [][\A t \in Threads :
              (/\ ~is_closed
               /\ guards[t] # <<>>
               /\ Last(guards[t]).kind = "AsyncScopeGuard"
               /\ guards'[t] = Front(guards[t]))
              => IdsOf(TRACE_LOCAL[t].spans) \subseteq CarriedIds']_vars
    /\ [][CarriedIds \subseteq CarriedIds']_vars
    /\ [](finisher.pc = "done" => tx = <<>>)

\* the collected result holds the root and a Pending span and an entered span
\* of a handle that attached after the root ended, sent before finish
C37_Witness ==
    /\ finisher.pc = "done"
    /\ \E r, p, s \in DOMAIN finisher.spans :
           LET S == finisher.spans IN
           /\ S[r].parent_id = 0 /\ S[r].state = "Normal"
           /\ S[p].state = "Pending"
           /\ S[s].parent_id = S[p].id
           /\ S[p].begin_cycles + S[p].elapsed_cycles
                  > S[r].begin_cycles + S[r].elapsed_cycles
           /\ {S[p].id, S[s].id} \cap late_ids = {}

(***************************************************************************)
(* Properties of SpecPoll                                                  *)
(***************************************************************************)
\* no poll of the future is under way
BetweenPolls == future.pc \in {"created", "suspended", "done"}

\* C36: every poll of the wrapped future calls trace_enable on the handle once,
\* at its start, and has dropped the guard it got when it returns, so that no
\* guard of the handle is alive between two polls; the handle is dropped once,
\* in the poll whose inner future returned Ready, after the guard of that poll
\* was dropped, and in no poll that returns Pending.
C36_PollDiscipline ==
    /\ [](BetweenPolls
          => /\ future.enables = future.polls
             /\ future.releases = future.polls
             /\ ~Borrowed(future.h)
             /\ \A t \in Threads : \A i \in DOMAIN guards[t] :
                    guards[t][i].kind \notin {"LocalTraceGuard", "LocalSpanGuard"})
    /\ [](/\ (trace_handle[future.h].st = "dropped") <=> (future.pc = "done")
          /\ future.drops = IF future.pc = "done" THEN 1 ELSE 0)
    /\ [][ret'.op = "trace_enable"
          => /\ BetweenPolls /\ future.pc # "done"
             /\ future'.pc = "entered"
             /\ future'.enables = future.enables + 1]_vars
    /\ [][(trace_handle[future.h].st = "live" /\ trace_handle'[future.h].st = "dropped")
          => /\ future.pc = "take" /\ future.result = "Ready"
             /\ future.releases = future.polls
             /\ ~Borrowed(future.h)
             /\ future'.pc = "done"]_vars

\* the future was polled MaxPolls times, the last poll returned Ready, and two
\* of the polls attached the handle's trace to their thread
C36_Witness ==
    /\ future.pc = "done"
    /\ future.polls = MaxPolls
    /\ Len(emitted[future.h]) = MaxAttach
    /\ trace_handle[future.h].inner

====
